---- MODULE Spec2Model ----
(***************************************************************************)
(* A model of the RAG assistant's browser client: the authentication       *)
(* container and route guard, the chat session hook (streaming send), the  *)
(* settings hook, the document management hook, the message bubble and its *)
(* citation tooltip; and of the secrets bootstrap script.                  *)
(*                                                                         *)
(* Each hook is checked under a specification of its own:                  *)
(*   Spec             application shell, routing and the documents hook    *)
(*   SpecChat         the chat session hook (useChat.ts, lines 246-513)    *)
(*   SpecSettings     the settings hook that mirrors and masks keys        *)
(*   SpecSettingsAll  the settings hook that stores the whole object       *)
(*   SpecDocsPlain    the documents hook without unauthorized handling     *)
(*   SpecBootstrap    scripts/bootstrap.sh run again and again             *)
(*   SpecTooltip      formatChunk of the citation tooltip                  *)
(*   SpecBubble       processText of the message bubble                    *)
(*   SpecHydration    the useState initializer of the settings hook        *)
(*   SpecPolling      the documents hook polling a backend that works      *)
(*   SpecStream       one response body of sendMessage under every chunking *)
(*   SpecForm         the chat page's form and the invocations it starts   *)
(*   SpecLogin        the login page's submit handler and banner           *)
(* An async handler is one action per stretch between two suspension       *)
(* points (await); a state updater is applied when it is queued.           *)
(***************************************************************************)
EXTENDS Integers, Sequences, FiniteSets, TLC

VARIABLES
    \* AuthProvider
    token, storedToken,
    \* useChat
    chatMounted, messages, isLoading, renderError,
    sendPc, sendExit, fullContent, sources, isFirstChunk, buffer, lineQueue,
    histReq, clearReq,
    \* the concatenation of the delta fragments the chat response has carried
    expected,
    \* the message of the "data: " error event processed in the current turn
    errorEvent,
    \* the router: the location and the element rendered for it
    path, page,
    \* useDocuments (isLoading is docsLoading here)
    documents, docsLoading, docGets, uploadPc, uploadSize, deletePc,
    pollTimers, mountTimer, staleReqs,
    \* the HTTP status a documents request was answered with in the last step
    lastStatus,
    \* useSettings: the state, the item stored under rag_settings, the
    \* profile update in flight, the fetch of the mount effect
    settings, storedSettings, settingsPc, putRefetch, fetchPending,
    \* the updateSettings call of the last step, and whether a reload followed
    lastCall,
    \* the payloads of the profile updates the last step has sent
    sentPut,
    \* bootstrap.sh: whether .env exists, its contents, the script's position
    \* and the number of finished runs
    envExists, envFile, bootPc, bootRuns,
    \* CitationTooltip: the excerpt handed to formatChunk first, the text
    \* after the calls made so far, and their number
    chunkInput, chunkText, chunkPasses,
    \* MessageBubble: a text child of the rendered markdown, the message's
    \* sources field and what processText returned for the child
    textNode, bubbleSources, bubbleChildren,
    \* the useState initializer of useSettings: the text stored under
    \* rag_settings when it runs, and what it returned or threw
    savedItem, initialState,
    \* the backend behind GET /api/documents: the status of each stored document
    backendDocs,
    \* the response body of one sendMessage invocation read alone: the whole
    \* body, how many of its tokens the reads have returned, and the kinds of
    \* place at which a read has ended before the end of the body
    stream, streamPos, cutKinds,
    \* the chat page's form: the text in the input, the sendMessage invocations
    \* of the mounted page that are in flight, and those of pages since unmounted
    inputValue, sendsInFlight, staleSends,
    \* LoginPage: the mode, the banner, the loading flag, the request of the
    \* submit in flight, and how long each pending banner timeout has run
    isLogin, loginError, loginLoading, loginPc, bannerTimers

authVars == <<token, storedToken>>
chatVars == <<chatMounted, messages, isLoading, renderError, sendPc, sendExit,
              fullContent, sources, isFirstChunk, buffer, lineQueue,
              histReq, clearReq, expected, errorEvent>>

routeVars == <<path, page>>
docsVars == <<documents, docsLoading, docGets, uploadPc, uploadSize, deletePc,
             pollTimers, mountTimer, staleReqs, lastStatus>>

settingsVars == <<settings, storedSettings, settingsPc, putRefetch, fetchPending,
                 lastCall, sentPut>>

bootVars == <<envExists, envFile, bootPc, bootRuns>>
\* what lives outside the browser client
tooltipVars == <<chunkInput, chunkText, chunkPasses>>
bubbleVars == <<textNode, bubbleSources, bubbleChildren>>
hydrationVars == <<savedItem, initialState>>
backendVars == <<backendDocs>>
streamVars == <<stream, streamPos, cutKinds>>
formVars == <<inputValue, sendsInFlight, staleSends>>
loginVars == <<isLogin, loginError, loginLoading, loginPc, bannerTimers>>
\* what the later sections add
extraVars == <<hydrationVars, backendVars, streamVars, formVars, loginVars>>
toolVars == <<bootVars, tooltipVars, bubbleVars, extraVars>>
clientVars == <<authVars, chatVars, routeVars, docsVars, settingsVars>>

\* what a step of the chat hook leaves alone
OutsideChat == UNCHANGED <<routeVars, docsVars, settingsVars, toolVars>>
\* what a step of the shell or of the documents hook leaves alone
OutsideShell == UNCHANGED <<chatVars, settingsVars, toolVars>>
\* what a step of the settings hook leaves alone
OutsideSettings == UNCHANGED <<chatVars, routeVars, docsVars, toolVars>>

----------------------------------------------------------------------------
(* Bounds of the model *)

\* Most list requests of the mounted documents hook in flight at once.
MaxGets == 2
\* Most requests of unmounted hooks still in flight.
MaxStale == 1
\* Longest accumulated answer, in fragments' characters.
MaxContent == 2
\* Longest transcript a turn starts from.
MaxMessages == 1

----------------------------------------------------------------------------
(* AuthProvider *)

NoToken == "null"
Tokens == {"t1"}

\* isAuthenticated: !!token (the empty string is falsy)
isAuthenticated(t) == t /= NoToken /\ t /= ""

\* logout()
logout ==
    /\ storedToken' = NoToken
    /\ token' = NoToken

\* login(newToken)
login(newToken) ==
    /\ storedToken' = newToken
    /\ token' = newToken

\* ProtectedRoute: the guarded subtree, or a redirect to /login
\* variant of ProtectedRoute that renders the outlet for everyone
ProtectedRouteOpen(auth, outlet) == outlet
ProtectedRoute(auth, outlet) == IF auth THEN outlet ELSE "login"

----------------------------------------------------------------------------
(* Text: a string is the sequence of its pieces *)

ErrorPrefix == <<"Error: ">>
AnErrorOccurred == <<"An error occurred">>
NotOkText == <<"Network response was not ok">>
SorryPrefix == <<"Sorry, I encountered an error. Please try again.\n\nDetails: ">>

\* Message values
UserMessage(content) ==
    [role |-> "user", content |-> content, hasSources |-> FALSE, sources |-> <<>>]
AssistantMessage(content, hasSrc, src) ==
    [role |-> "assistant", content |-> content, hasSources |-> hasSrc, sources |-> src]

Last(s) == s[Len(s)]
SetLast(s, m) == [s EXCEPT ![Len(s)] = m]

----------------------------------------------------------------------------
(* The response body: tokens.  NL is "\n", DATA the six characters         *)
(* "data: "; every other token is one payload text.                        *)

Tok(k, c, s) == [k |-> k, c |-> c, s |-> s]
NL == Tok("nl", <<>>, <<>>)
DATA == Tok("data: ", <<>>, <<>>)
DONE == Tok("[DONE]", <<>>, <<>>)
Garbage == Tok("garbage", <<>>, <<>>)
Delta(c) == Tok("delta", c, <<>>)
SourcesEv(s) == Tok("sources", <<>>, s)
ErrorEv(c) == Tok("error", c, <<>>)
Upstream(c) == Tok("upstream", c, <<>>)

\* JSON.parse succeeds on exactly one well-formed object
JsonParses(str) == Len(str) = 1 /\ str[1].k \in {"delta", "sources", "error", "upstream"}

\* s.split("\n") and s.split("\n\n") on token sequences
RECURSIVE SplitNL(_, _)
SplitNL(s, cur) ==
    IF s = <<>> THEN <<cur>>
    ELSE IF Head(s) = NL THEN <<cur>> \o SplitNL(Tail(s), <<>>)
    ELSE SplitNL(Tail(s), Append(cur, Head(s)))

RECURSIVE SplitNLNL(_, _)
SplitNLNL(s, cur) ==
    IF s = <<>> THEN <<cur>>
    ELSE IF Len(s) >= 2 /\ s[1] = NL /\ s[2] = NL
         THEN <<cur>> \o SplitNLNL(Tail(Tail(s)), <<>>)
    ELSE SplitNLNL(Tail(s), Append(cur, Head(s)))

\* buffer.trim() is non-empty
TrimNonEmpty(s) == \E i \in 1..Len(s) : s[i] /= NL

Front(s) == SubSeq(s, 1, Len(s) - 1)
RECURSIVE LinesOf(_)
LinesOf(parts) ==
    IF parts = <<>> THEN <<>> ELSE SplitNL(Head(parts), <<>>) \o LinesOf(Tail(parts))

----------------------------------------------------------------------------
(* useChat: the streaming reducer.  A reducer state holds what processLine *)
(* reads and writes: the transcript and the three locals of sendMessage;   *)
(* err is set when an updater reads the role of a last entry that is not   *)
(* there (a TypeError raised while rendering).                             *)

RState(m, f, s, i, e) ==
    [messages |-> m, fullContent |-> f, sources |-> s, isFirstChunk |-> i, err |-> e]

\* setMessages(prev => { lastMsg = last of prev; if assistant: lastMsg.content = c })
SetLastContent(st, c) ==
    IF st.messages = <<>> THEN [st EXCEPT !.err = TRUE]
    ELSE IF Last(st.messages).role = "assistant"
         THEN [st EXCEPT !.messages = SetLast(@, [Last(@) EXCEPT !.content = c])]
    ELSE st

\* variant of SetLastSources that does not look at the role of the last entry
SetLastSourcesAnyRole(st, src) ==
    IF st.messages = <<>> THEN [st EXCEPT !.err = TRUE]
    ELSE [st EXCEPT !.messages =
             SetLast(@, [Last(@) EXCEPT !.hasSources = TRUE, !.sources = src])]
\* setMessages(prev => { ...; if assistant: lastMsg.sources = sources })
SetLastSources(st, src) ==
    IF st.messages = <<>> THEN [st EXCEPT !.err = TRUE]
    ELSE IF Last(st.messages).role = "assistant"
         THEN [st EXCEPT !.messages =
                  SetLast(@, [Last(@) EXCEPT !.hasSources = TRUE, !.sources = src])]
    ELSE st

\* data.content || 'An error occurred'
ErrorContent(data) == IF data.c = <<>> THEN AnErrorOccurred ELSE data.c

\* variant of Accumulate that puts the new fragment first
AccumulateReversed(full, content) == content \o full
\* fullContent += content
Accumulate(full, content) == full \o content

\* variant of FirstAssistantMessage that leaves the sources out
FirstAssistantMessageBare(full, src) == AssistantMessage(full, FALSE, <<>>)
\* { role: 'assistant', content: fullContent, sources: sources }
FirstAssistantMessage(full, src) == AssistantMessage(full, TRUE, src)

\* the branch of processLine for a line that starts with "data: "
ProcessDataLine(st, dataStr) ==
    IF dataStr = <<DONE>> THEN st
    ELSE IF ~JsonParses(dataStr) THEN st
    ELSE LET data == dataStr[1] IN
         IF data.k = "error"
         THEN SetLastContent(st, ErrorPrefix \o ErrorContent(data))
         ELSE IF data.k = "sources"
         THEN IF ~st.isFirstChunk
              THEN SetLastSources([st EXCEPT !.sources = data.s], data.s)
              ELSE [st EXCEPT !.sources = data.s]
         ELSE IF data.k = "delta" /\ data.c /= <<>>
         THEN LET full == Accumulate(st.fullContent, data.c) IN
              IF st.isFirstChunk
              THEN [st EXCEPT !.fullContent = full,
                              !.messages = Append(@, FirstAssistantMessage(full, st.sources)),
                              !.isFirstChunk = FALSE]
              ELSE SetLastContent([st EXCEPT !.fullContent = full], full)
         ELSE st

\* the branch of processLine for any other line: a bare JSON error
ProcessBareLine(st, line) ==
    IF ~JsonParses(line) THEN st
    ELSE LET data == line[1]
             hasError == data.k \in {"upstream", "error"}
             errorMessage == IF data.k = "upstream" THEN data.c ELSE ErrorContent(data)
         IN  IF ~hasError THEN st
             ELSE IF st.isFirstChunk
                  THEN [st EXCEPT !.messages =
                           Append(@, AssistantMessage(ErrorPrefix \o errorMessage, FALSE, <<>>))]
             ELSE SetLastContent(st, ErrorPrefix \o errorMessage)

processLine(st, line) ==
    IF st.err THEN st
    ELSE IF line /= <<>> /\ Head(line) = DATA THEN ProcessDataLine(st, Tail(line))
    ELSE ProcessBareLine(st, line)

\* the final update of sendMessage
FinalUpdate(st) ==
    IF st.isFirstChunk THEN st
    ELSE IF st.messages = <<>> THEN [st EXCEPT !.err = TRUE]
    ELSE IF Last(st.messages).role = "assistant"
         THEN [st EXCEPT !.messages =
                  SetLast(@, [Last(@) EXCEPT !.content = st.fullContent,
                                             !.hasSources = TRUE,
                                             !.sources = st.sources])]
    ELSE st

\* the catch block of sendMessage
CatchUpdate(st, description) == SetLastContent(st, SorryPrefix \o description)

----------------------------------------------------------------------------
(* useChat: the hook's state and the sendMessage invocation in flight *)

\* Longest text the parser's buffer holds back after a read, in tokens.
MaxBuffer == 2

Questions == {<<"q">>}
Earlier == <<"earlier question">>
FetchFailed == <<"Failed to fetch">>
ReadFailed == <<"network error">>

\* what GET /api/history may answer: a stored transcript, its last turn
\* answered or not
Histories ==
    { <<UserMessage(Earlier)>>,
      <<UserMessage(Earlier), AssistantMessage(<<"h">>, FALSE, <<>>)>> }

\* payloads of "data: " lines, and lines without the prefix
DataPayloads ==
    { Delta(<<>>), Delta(<<"a">>), Delta(<<"b">>), SourcesEv(<<1>>),
      ErrorEv(<<"e">>), DONE, Garbage }
BareLines == { Upstream(<<"u">>), ErrorEv(<<"e">>) }
\* the chat page is rendered under the route guard
ChatRendered(t) == ProtectedRoute(isAuthenticated(t), "chat") = "chat"

CurSt == RState(messages, fullContent, sources, isFirstChunk, FALSE)

\* The state updates of one stretch of the invocation: dropped when the hook is
\* unmounted; an updater that throws unmounts the tree (no error boundary).
Commit(st, loading) ==
    IF ~chatMounted
    THEN UNCHANGED <<chatMounted, messages, isLoading, renderError>>
    ELSE IF st.err
    THEN /\ chatMounted' = FALSE
         /\ messages' = <<>>
         /\ isLoading' = FALSE
         /\ renderError' = TRUE
    ELSE /\ messages' = st.messages
         /\ isLoading' = loading
         /\ UNCHANGED <<chatMounted, renderError>>

\* logout() called from the hook: the guard redirects and the page unmounts
LogoutFromChat ==
    /\ logout
    /\ chatMounted' = ChatRendered(NoToken)
    /\ messages' = <<>>
    /\ isLoading' = FALSE
    /\ UNCHANGED renderError

Locals(st) ==
    /\ fullContent' = st.fullContent
    /\ sources' = st.sources
    /\ isFirstChunk' = st.isFirstChunk

\* the invocation returns: its locals are gone
Finish(exit) ==
    /\ sendPc' = "returned"
    /\ sendExit' = exit
    /\ fullContent' = <<>> /\ sources' = <<>> /\ isFirstChunk' = TRUE
    /\ buffer' = <<>> /\ lineQueue' = <<>>

InSyncBlock == lineQueue /= <<>>

\* sendMessage(content), up to the await of fetch
SendMessage(content) ==
    /\ chatMounted /\ sendPc \in {"idle", "returned"}
    /\ Len(messages) <= MaxMessages
    /\ messages' = Append(messages, UserMessage(content))
    /\ isLoading' = TRUE
    /\ sendPc' = "awaitResponse"
    /\ sendExit' = "none"
    /\ fullContent' = <<>> /\ sources' = <<>> /\ isFirstChunk' = TRUE
    /\ buffer' = <<>> /\ lineQueue' = <<>>
    /\ expected' = <<>>
    /\ errorEvent' = <<>>
    /\ UNCHANGED <<authVars, chatMounted, renderError, histReq, clearReq>>
    /\ OutsideChat

\* fetch rejects: catch, finally
SendFetchFails ==
    /\ sendPc = "awaitResponse"
    /\ Commit(CatchUpdate(CurSt, FetchFailed), FALSE)
    /\ Finish("exception")
    /\ UNCHANGED <<authVars, histReq, clearReq, expected, errorEvent>>
    /\ OutsideChat

\* response.status === 401
SendUnauthorized ==
    /\ sendPc = "awaitResponse"
    /\ LogoutFromChat
    /\ Finish("unauthorized")
    /\ UNCHANGED <<histReq, clearReq, expected, errorEvent>>
    /\ OutsideChat

\* !response.ok: the error body is awaited
SendNotOk ==
    /\ sendPc = "awaitResponse"
    /\ sendPc' = "awaitErrorBody"
    /\ UNCHANGED <<authVars, chatMounted, messages, isLoading, renderError, sendExit,
                   fullContent, sources, isFirstChunk, buffer, lineQueue,
                   histReq, clearReq, expected, errorEvent>>
    /\ OutsideChat

\* errorData.content || 'Network response was not ok'; append; throw; catch; finally
SendErrorBody(content) ==
    /\ sendPc = "awaitErrorBody"
    /\ LET errorMessage == IF content = <<>> THEN NotOkText ELSE content
           appended == [CurSt EXCEPT !.messages =
                           Append(@, AssistantMessage(ErrorPrefix \o errorMessage, FALSE, <<>>))]
       IN  Commit(CatchUpdate(appended, errorMessage), FALSE)
    /\ Finish("http_error")
    /\ UNCHANGED <<authVars, histReq, clearReq, expected, errorEvent>>
    /\ OutsideChat

\* response.ok with a body: the read loop starts
SendOk ==
    /\ sendPc = "awaitResponse"
    /\ sendPc' = "reading"
    /\ UNCHANGED <<authVars, chatMounted, messages, isLoading, renderError, sendExit,
                   fullContent, sources, isFirstChunk, buffer, lineQueue,
                   histReq, clearReq, expected, errorEvent>>
    /\ OutsideChat

\* variant of SendOkNoBody without the finally block
SendOkNoBodyKeepsLoading ==
    /\ sendPc = "awaitResponse"
    /\ Commit(CurSt, isLoading)
    /\ Finish("no_body")
    /\ UNCHANGED <<authVars, histReq, clearReq, expected, errorEvent>>
    /\ OutsideChat

\* response.ok without a body: reader is undefined, only finally runs
SendOkNoBody ==
    /\ sendPc = "awaitResponse"
    /\ Commit(CurSt, FALSE)
    /\ Finish("no_body")
    /\ UNCHANGED <<authVars, histReq, clearReq, expected, errorEvent>>
    /\ OutsideChat

\* What one read may return: an event (a "data: " line or a bare line) with
\* or without its end of line or blank line, or newlines alone.
Terminators == { <<>>, <<NL>>, <<NL, NL>> }
Chunks ==
    { <<DATA, p>> \o t : p \in DataPayloads, t \in Terminators }
      \cup { <<p>> \o t : p \in BareLines, t \in Terminators }
      \cup { <<NL>>, <<NL, NL>> }

\* the delta.content fragments of a chunk's event
DeltaOf(chunk) ==
    IF Len(chunk) >= 2 /\ chunk[1] = DATA /\ chunk[2].k = "delta" THEN chunk[2].c ELSE <<>>
IsBare(chunk) == chunk[1] /= DATA /\ chunk[1] /= NL
\* a line "data: " followed by the JSON of an event of type error
DataErrorEvent(line) == Len(line) = 2 /\ line[1] = DATA /\ line[2].k = "error"

\* Events are well formed: a line is ended before the next one starts.
WellFormed(buf, chunk) ==
    IF buf = <<>> THEN TRUE ELSE IF Last(buf) = NL THEN TRUE ELSE Head(chunk) = NL

\* reader.read() returns a chunk: decode, split on blank lines, keep the last
\* part; the lines of the other parts are then processed.
Read(chunk) ==
    /\ sendPc = "reading" /\ ~InSyncBlock
    /\ WellFormed(buffer, chunk)
    /\ Len(expected \o DeltaOf(chunk)) <= MaxContent
    /\ IsBare(chunk) => Len(messages) <= MaxMessages + 1
    /\ LET parts == SplitNLNL(buffer \o chunk, <<>>) IN
       /\ Len(Last(parts)) <= MaxBuffer
       /\ buffer' = Last(parts)
       /\ lineQueue' = LinesOf(Front(parts))
    /\ expected' = expected \o DeltaOf(chunk)
    /\ UNCHANGED <<authVars, chatMounted, messages, isLoading, renderError, sendPc,
                   sendExit, fullContent, sources, isFirstChunk, histReq, clearReq,
                   errorEvent>>
    /\ OutsideChat

\* processLine(line) for the next line of the chunk being processed
ProcessLineStep ==
    /\ InSyncBlock
    /\ LET st == processLine(CurSt, Head(lineQueue)) IN
       /\ Locals(st)
       /\ Commit(st, isLoading)
    /\ lineQueue' = Tail(lineQueue)
    /\ errorEvent' = IF DataErrorEvent(Head(lineQueue))
                     THEN <<ErrorContent(Head(lineQueue)[2])>> ELSE errorEvent
    /\ UNCHANGED <<authVars, sendPc, sendExit, buffer, histReq, clearReq, expected>>
    /\ OutsideChat

\* reader.read() returns done: the rest of the buffer gets its parse pass
ReadDone ==
    /\ sendPc = "reading" /\ ~InSyncBlock
    /\ lineQueue' = IF TrimNonEmpty(buffer) THEN SplitNL(buffer, <<>>) ELSE <<>>
    /\ sendPc' = "final"
    /\ UNCHANGED <<authVars, chatMounted, messages, isLoading, renderError, sendExit,
                   fullContent, sources, isFirstChunk, buffer, histReq, clearReq, expected, errorEvent>>
    /\ OutsideChat

\* after the loop: the final update, then finally
FinalStep ==
    /\ sendPc = "final" /\ ~InSyncBlock
    /\ Commit(FinalUpdate(CurSt), FALSE)
    /\ Finish("stream_end")
    /\ UNCHANGED <<authVars, histReq, clearReq, expected, errorEvent>>
    /\ OutsideChat

\* reader.read() rejects: catch, finally
ReadThrows ==
    /\ sendPc = "reading" /\ ~InSyncBlock
    /\ Commit(CatchUpdate(CurSt, ReadFailed), FALSE)
    /\ Finish("exception")
    /\ UNCHANGED <<authVars, histReq, clearReq, expected, errorEvent>>
    /\ OutsideChat

----------------------------------------------------------------------------
(* useChat: fetchHistory and clearHistory *)

\* fetchHistory: 401
HistoryUnauthorized ==
    /\ histReq = "pending" /\ ~InSyncBlock
    /\ LogoutFromChat
    /\ histReq' = "none"
    /\ UNCHANGED <<sendPc, sendExit, fullContent, sources, isFirstChunk, buffer,
                   lineQueue, clearReq, expected, errorEvent>>
    /\ OutsideChat

\* fetchHistory: response.ok, setMessages(data)
HistoryOk(data) ==
    /\ histReq = "pending" /\ ~InSyncBlock
    /\ Commit([CurSt EXCEPT !.messages = data], isLoading)
    /\ histReq' = "none"
    /\ UNCHANGED <<authVars, sendPc, sendExit, fullContent, sources, isFirstChunk,
                   buffer, lineQueue, clearReq, expected, errorEvent>>
    /\ OutsideChat

\* fetchHistory: another status, or the request fails
HistoryFails ==
    /\ histReq = "pending" /\ ~InSyncBlock
    /\ histReq' = "none"
    /\ UNCHANGED <<authVars, chatMounted, messages, isLoading, renderError, sendPc,
                   sendExit, fullContent, sources, isFirstChunk, buffer, lineQueue,
                   clearReq, expected, errorEvent>>
    /\ OutsideChat

\* clearHistory(), up to the await of fetch
ClearHistory ==
    /\ chatMounted /\ ~InSyncBlock
    /\ token /= NoToken /\ token /= ""
    /\ clearReq = "none"
    /\ clearReq' = "pending"
    /\ UNCHANGED <<authVars, chatMounted, messages, isLoading, renderError, sendPc,
                   sendExit, fullContent, sources, isFirstChunk, buffer, lineQueue,
                   histReq, expected, errorEvent>>
    /\ OutsideChat

\* clearHistory: 401
ClearUnauthorized ==
    /\ clearReq = "pending" /\ ~InSyncBlock
    /\ LogoutFromChat
    /\ clearReq' = "none"
    /\ UNCHANGED <<sendPc, sendExit, fullContent, sources, isFirstChunk, buffer,
                   lineQueue, histReq, expected, errorEvent>>
    /\ OutsideChat

\* clearHistory: any other response, setMessages([])
ClearResponds ==
    /\ clearReq = "pending" /\ ~InSyncBlock
    /\ Commit([CurSt EXCEPT !.messages = <<>>], isLoading)
    /\ clearReq' = "none"
    /\ UNCHANGED <<authVars, sendPc, sendExit, fullContent, sources, isFirstChunk,
                   buffer, lineQueue, histReq, expected, errorEvent>>
    /\ OutsideChat

\* clearHistory: the request fails
ClearFails ==
    /\ clearReq = "pending" /\ ~InSyncBlock
    /\ clearReq' = "none"
    /\ UNCHANGED <<authVars, chatMounted, messages, isLoading, renderError, sendPc,
                   sendExit, fullContent, sources, isFirstChunk, buffer, lineQueue,
                   histReq, expected, errorEvent>>
    /\ OutsideChat

\* the hooks a specification leaves out
NoChat ==
    /\ chatMounted = FALSE /\ messages = <<>> /\ isLoading = FALSE
    /\ renderError = FALSE /\ sendPc = "idle" /\ sendExit = "none"
    /\ fullContent = <<>> /\ sources = <<>> /\ isFirstChunk = TRUE
    /\ buffer = <<>> /\ lineQueue = <<>>
    /\ histReq = "none" /\ clearReq = "none" /\ expected = <<>> /\ errorEvent = <<>>
NoDocs ==
    /\ documents = <<>> /\ docsLoading = FALSE /\ docGets = 0
    /\ uploadPc = "idle" /\ uploadSize = 0 /\ deletePc = "idle"
    /\ pollTimers = <<>> /\ mountTimer = <<>> /\ staleReqs = 0 /\ lastStatus = 0
NoSettings ==
    /\ settings = <<>> /\ storedSettings = <<>> /\ settingsPc = "idle"
    /\ putRefetch = FALSE /\ fetchPending = FALSE /\ lastCall = <<>>
    /\ sentPut = <<>>
NoBoot ==
    /\ envExists = FALSE /\ envFile = <<>> /\ bootPc = "idle" /\ bootRuns = 0
NoTooltip ==
    /\ chunkInput = <<>> /\ chunkText = <<>> /\ chunkPasses = 0
NoBubble ==
    /\ textNode = <<>> /\ bubbleSources = <<>> /\ bubbleChildren = <<>>
NoHydration ==
    /\ savedItem = <<>> /\ initialState = <<>>
NoBackend ==
    /\ backendDocs = <<>>
NoStream ==
    /\ stream = <<>> /\ streamPos = 0 /\ cutKinds = {}
NoForm ==
    /\ inputValue = <<>> /\ sendsInFlight = 0 /\ staleSends = 0
NoLogin ==
    /\ isLogin = TRUE /\ loginError = "" /\ loginLoading = FALSE /\ loginPc = "idle" /\ bannerTimers = <<>>
NoExtra ==
    /\ NoLogin
    /\ NoForm
    /\ NoStream
    /\ NoBackend
    /\ NoHydration
NoTools ==
    /\ NoBoot
    /\ NoTooltip
    /\ NoBubble
    /\ NoExtra

InitAuth(t) ==
    /\ storedToken = t
    /\ token = t

\* nobody is signed in and no hook is mounted
NoClient ==
    /\ InitAuth(NoToken)
    /\ path = "login" /\ page = "login"
    /\ NoChat
    /\ NoDocs
    /\ NoSettings

InitChat ==
    /\ chatMounted = TRUE
    /\ messages = <<>>
    /\ isLoading = FALSE
    /\ renderError = FALSE
    /\ sendPc = "idle"
    /\ sendExit = "none"
    /\ fullContent = <<>> /\ sources = <<>> /\ isFirstChunk = TRUE
    /\ buffer = <<>> /\ lineQueue = <<>>
    /\ histReq = "pending"
    /\ clearReq = "none"
    /\ expected = <<>>
    /\ errorEvent = <<>>

\* the chat page is open; the documents hook is left out
ChatInit ==
    /\ \E t \in Tokens : InitAuth(t)
    /\ InitChat
    /\ path = "chat" /\ page = "chat"
    /\ NoDocs
    /\ NoSettings
    /\ NoTools

ChatNext ==
    \/ \E q \in Questions : SendMessage(q)
    \/ SendFetchFails
    \/ SendUnauthorized
    \/ SendNotOk
    \/ \E c \in {<<>>, <<"m">>} : SendErrorBody(c)
    \/ SendOk
    \/ SendOkNoBody
    \/ \E c \in Chunks : Read(c)
    \/ ProcessLineStep
    \/ ReadDone
    \/ FinalStep
    \/ ReadThrows
    \/ HistoryUnauthorized
    \/ \E h \in Histories : HistoryOk(h)
    \/ HistoryFails
    \/ ClearHistory
    \/ ClearUnauthorized
    \/ ClearResponds
    \/ ClearFails

vars == <<authVars, chatVars, routeVars, docsVars, settingsVars, toolVars>>

SpecChat == ChatInit /\ [][ChatNext]_vars

----------------------------------------------------------------------------
(* App: the routes and the route guard *)

GuardedPages == {"chat", "settings", "info"}
Paths == GuardedPages \cup {"login", "root"}

\* the element rendered for a location; the index route leads to the chat
\* page, and "login" under the guard is <Navigate to="/login" replace />,
\* which makes /login the location
RouteElement(t, p) ==
    IF p = "login" THEN "login"
    ELSE ProtectedRoute(isAuthenticated(t), IF p = "root" THEN "chat" ELSE p)

----------------------------------------------------------------------------
(* useDocuments (useDocuments.ts) *)

MAX_FILE_SIZE == 50 * 1024 * 1024
FileSizes == { MAX_FILE_SIZE - 1, MAX_FILE_SIZE, MAX_FILE_SIZE + 1, 51 * 1024 * 1024 }
\* variant of TooLarge that also rejects a file of the maximum size
TooLargeInclusive(size) == size >= MAX_FILE_SIZE
\* file.size > MAX_FILE_SIZE
TooLarge(size) == size > MAX_FILE_SIZE
\* the delay of both intervals, and the grain of time of the model
PollDelay == 3000
TickMs == PollDelay \div 3

\* what GET /api/documents may answer: the status of each document
DocLists ==
    { <<>>, <<"completed">>, <<"pending">>, <<"processing", "completed">>,
      <<"failed", "completed">> }

hasPending(docs) == \E i \in 1..Len(docs) : docs[i] \in {"pending", "processing"}

\* setInterval(callback, delay)
Interval(delay) == [delay |-> delay, elapsed |-> 0]
\* variant of ClearIntervals that clears nothing
ClearNoIntervals(timers) == timers
\* the cleanup of the polling effect: clearInterval(intervalId)
ClearIntervals(timers) == <<>>
\* the polling effect, run again whenever the list is replaced
PollingEffect(timers, docs) ==
    IF hasPending(docs) THEN Append(ClearIntervals(timers), Interval(PollDelay))
    ELSE ClearIntervals(timers)

\* the state of the hook
DocsState(d, l, g, u, s, x, p, m) ==
    [documents |-> d, docsLoading |-> l, docGets |-> g, uploadPc |-> u,
     uploadSize |-> s, deletePc |-> x, pollTimers |-> p, mountTimer |-> m]
CurDocs ==
    DocsState(documents, docsLoading, docGets, uploadPc, uploadSize, deletePc,
              pollTimers, mountTimer)
\* the hook when its component mounts: the mount effect has fetched the list
\* and armed its interval
DocsMounted(t) ==
    DocsState(<<>>, FALSE, IF isAuthenticated(t) THEN 1 ELSE 0, "idle", 0, "idle",
              PollingEffect(<<>>, <<>>), <<Interval(PollDelay)>>)
\* no hook: the component is not mounted, its intervals are cleared
DocsUnmounted == DocsState(<<>>, FALSE, 0, "idle", 0, "idle", <<>>, <<>>)

\* requests of the hook that are in flight
InFlight(d) ==
    d.docGets + (IF d.uploadPc \in {"posting", "refetching"} THEN 1 ELSE 0)
              + (IF d.deletePc \in {"deleting", "refetching"} THEN 1 ELSE 0)

Min(a, b) == IF a < b THEN a ELSE b

DocsAre(d) ==
    /\ documents = d.documents /\ docsLoading = d.docsLoading /\ docGets = d.docGets
    /\ uploadPc = d.uploadPc /\ uploadSize = d.uploadSize /\ deletePc = d.deletePc
    /\ pollTimers = d.pollTimers /\ mountTimer = d.mountTimer
SetDocs(d) ==
    /\ documents' = d.documents /\ docsLoading' = d.docsLoading /\ docGets' = d.docGets
    /\ uploadPc' = d.uploadPc /\ uploadSize' = d.uploadSize /\ deletePc' = d.deletePc
    /\ pollTimers' = d.pollTimers /\ mountTimer' = d.mountTimer

\* the status of the answer a step handles; 0 when it handles none
Answered(status) == lastStatus' = status

\* A render with token t at location p, the hook having reached state d and
\* stale requests of earlier hooks being in flight: the guard picks the
\* element; the documents hook lives with the chat page, and the requests of
\* a hook that unmounts stay in flight.
Render(t, p, d, stale) ==
    /\ path' = RouteElement(t, p)
    /\ page' = RouteElement(t, p)
    /\ IF page = "chat" /\ RouteElement(t, p) = "chat"
       THEN SetDocs(d) /\ staleReqs' = stale
       ELSE IF RouteElement(t, p) = "chat"
       THEN SetDocs(DocsMounted(t)) /\ staleReqs' = stale
       ELSE /\ SetDocs(DocsUnmounted)
            /\ staleReqs' = Min(MaxStale, stale + InFlight(d))

\* what a rejected request may carry: 401, or another failure
FailureStatuses == {401, 500}

\* A step of the mounted hook that has handled an answer of the given status
\* (0: none) and reached state d; a 401 makes it call logout().
DocsStep(d, status) ==
    /\ page = "chat"
    /\ IF status = 401
       THEN logout /\ Render(NoToken, path, d, staleReqs)
       ELSE UNCHANGED authVars /\ Render(token, path, d, staleReqs)
    /\ Answered(status)
    /\ OutsideShell

\* setDocuments(response.data), and the polling effect that follows
SetDocuments(d, data) ==
    [d EXCEPT !.documents = data, !.pollTimers = PollingEffect(@, data)]

\* fetchDocuments: the list arrives
DocsOk(data) ==
    /\ docGets > 0
    /\ DocsStep(SetDocuments([CurDocs EXCEPT !.docGets = @ - 1], data), 200)

\* fetchDocuments: catch; logout on 401, console.error otherwise
DocsRejected(status) ==
    /\ docGets > 0
    /\ DocsStep([CurDocs EXCEPT !.docGets = @ - 1], status)

\* uploadDocument(file), up to the await of the POST; one upload at a time
UploadDocument(size) ==
    /\ uploadPc \in {"idle", "rejected"}
    /\ IF ~isAuthenticated(token) THEN DocsStep(CurDocs, 0)
       ELSE IF TooLarge(size)
       THEN DocsStep([CurDocs EXCEPT !.uploadPc = "rejected", !.uploadSize = size], 0)
       ELSE DocsStep([CurDocs EXCEPT !.uploadPc = "posting", !.uploadSize = size,
                                     !.docsLoading = TRUE], 0)

\* the POST succeeds: await fetchDocuments()
UploadPosted ==
    /\ uploadPc = "posting"
    /\ DocsStep([CurDocs EXCEPT !.uploadPc = "refetching"], 200)

\* the POST is rejected: catch (logout on 401), finally
UploadRejected(status) ==
    /\ uploadPc = "posting"
    /\ DocsStep([CurDocs EXCEPT !.uploadPc = "idle", !.docsLoading = FALSE], status)

\* the awaited fetchDocuments brings the list; finally
UploadRefetched(data) ==
    /\ uploadPc = "refetching"
    /\ DocsStep(SetDocuments([CurDocs EXCEPT !.uploadPc = "idle", !.docsLoading = FALSE],
                             data), 200)

\* the awaited fetchDocuments is rejected (logout on 401); finally
UploadRefetchRejected(status) ==
    /\ uploadPc = "refetching"
    /\ DocsStep([CurDocs EXCEPT !.uploadPc = "idle", !.docsLoading = FALSE], status)

\* deleteDocument(filename) of a listed document whose button is enabled
DeleteDocument ==
    /\ deletePc = "idle"
    /\ \E i \in 1..Len(documents) : documents[i] \in {"completed", "failed"}
    /\ DocsStep([CurDocs EXCEPT !.deletePc =
                    IF isAuthenticated(token) THEN "deleting" ELSE "idle"], 0)

\* the DELETE succeeds: await fetchDocuments()
DeleteDone ==
    /\ deletePc = "deleting"
    /\ DocsStep([CurDocs EXCEPT !.deletePc = "refetching"], 200)

\* the DELETE is rejected: catch (logout on 401)
DeleteRejected(status) ==
    /\ deletePc = "deleting"
    /\ DocsStep([CurDocs EXCEPT !.deletePc = "idle"], status)

\* the fetchDocuments awaited by deleteDocument
DeleteRefetched(data) ==
    /\ deletePc = "refetching"
    /\ DocsStep(SetDocuments([CurDocs EXCEPT !.deletePc = "idle"], data), 200)
DeleteRefetchRejected(status) ==
    /\ deletePc = "refetching"
    /\ DocsStep([CurDocs EXCEPT !.deletePc = "idle"], status)

\* Time passes, as long as no interval is due.
Due(timer) == timer.elapsed >= timer.delay
Advance(timers) == [i \in 1..Len(timers) |-> [timers[i] EXCEPT !.elapsed = @ + TickMs]]
Tick ==
    /\ pollTimers \o mountTimer /= <<>>
    /\ \A i \in 1..Len(pollTimers) : ~Due(pollTimers[i])
    /\ \A i \in 1..Len(mountTimer) : ~Due(mountTimer[i])
    /\ DocsStep([CurDocs EXCEPT !.pollTimers = Advance(@), !.mountTimer = Advance(@)], 0)

\* the polling interval fires: fetchDocuments()
PollFires ==
    /\ \E i \in 1..Len(pollTimers) :
         /\ Due(pollTimers[i])
         /\ docGets < MaxGets
         /\ DocsStep([CurDocs EXCEPT !.pollTimers[i].elapsed = 0,
                                     !.docGets = IF isAuthenticated(token) THEN @ + 1 ELSE @],
                     0)

\* the interval of the mount effect fires: setDocuments(currentDocs => currentDocs)
MountIntervalFires ==
    /\ mountTimer /= <<>> /\ Due(mountTimer[1])
    /\ DocsStep([CurDocs EXCEPT !.mountTimer[1].elapsed = 0], 0)

----------------------------------------------------------------------------
(* The shell: login page, sidebar, requests of hooks that are gone *)

LoginTokens == {"t2", ""}

\* LoginPage handleSubmit, the token request answered: login(access_token); navigate('/')
Login(newToken) ==
    /\ page = "login"
    /\ login(newToken)
    /\ Render(newToken, "root", CurDocs, staleReqs)
    /\ OutsideShell
    /\ Answered(0)

\* Layout handleNavigate(page)
Navigate(p) ==
    /\ page \in GuardedPages /\ p /= page
    /\ Render(token, p, CurDocs, staleReqs)
    /\ UNCHANGED authVars
    /\ OutsideShell
    /\ Answered(0)

\* the browser's back and forward buttons: any location
Visit(p) ==
    /\ p /= path
    /\ Render(token, p, CurDocs, staleReqs)
    /\ UNCHANGED authVars
    /\ OutsideShell
    /\ Answered(0)

\* Sidebar: the logout button
SidebarLogout ==
    /\ page \in GuardedPages
    /\ logout
    /\ Render(NoToken, path, CurDocs, staleReqs)
    /\ OutsideShell
    /\ Answered(0)

\* a request of an unmounted hook answers 401: its handler still calls logout()
StaleUnauthorized ==
    /\ staleReqs > 0
    /\ logout
    /\ Render(NoToken, path, CurDocs, staleReqs - 1)
    /\ OutsideShell
    /\ Answered(401)

\* a request of an unmounted hook ends otherwise: its updates are dropped
StaleSettles ==
    /\ staleReqs > 0
    /\ staleReqs' = staleReqs - 1
    /\ UNCHANGED <<authVars, routeVars, documents, docsLoading, docGets, uploadPc,
                   uploadSize, deletePc, pollTimers, mountTimer>>
    /\ OutsideShell
    /\ Answered(200)

InitTokens == {NoToken, "", "t1"}

Init ==
    /\ \E t \in InitTokens : InitAuth(t)
    /\ \E p \in Paths : path = RouteElement(token, p)
    /\ page = path
    /\ DocsAre(IF page = "chat" THEN DocsMounted(token) ELSE DocsUnmounted)
    /\ staleReqs = 0 /\ lastStatus = 0
    /\ NoChat
    /\ NoSettings
    /\ NoTools

Next ==
    \/ \E t \in LoginTokens : Login(t)
    \/ \E p \in GuardedPages : Navigate(p)
    \/ \E p \in Paths : Visit(p)
    \/ SidebarLogout
    \/ StaleUnauthorized
    \/ StaleSettles
    \/ \E data \in DocLists : DocsOk(data)
    \/ \E status \in FailureStatuses : DocsRejected(status)
    \/ \E size \in FileSizes : UploadDocument(size)
    \/ UploadPosted
    \/ \E status \in FailureStatuses : UploadRejected(status)
    \/ \E data \in DocLists : UploadRefetched(data)
    \/ \E status \in FailureStatuses : UploadRefetchRejected(status)
    \/ DeleteDocument
    \/ DeleteDone
    \/ \E status \in FailureStatuses : DeleteRejected(status)
    \/ \E data \in DocLists : DeleteRefetched(data)
    \/ \E status \in FailureStatuses : DeleteRefetchRejected(status)
    \/ Tick
    \/ PollFires
    \/ MountIntervalFires

Spec == Init /\ [][Next]_vars

----------------------------------------------------------------------------
(* useDocuments, the revision that does not read logout (part_002): the    *)
(* mounted hook alone.  Its documents are file names, and nothing polls.   *)

PlainLists == { <<>>, <<"manual.pdf">>, <<"manual.pdf", "guidelines.docx">> }
PlainFrame ==
    UNCHANGED <<authVars, routeVars, chatVars, settingsVars, toolVars, pollTimers,
                mountTimer, staleReqs>>

\* fetchDocuments of the mount effect: the list arrives
PlainFetchOk(data) ==
    /\ docGets > 0
    /\ docGets' = docGets - 1
    /\ documents' = data
    /\ Answered(200)
    /\ UNCHANGED <<docsLoading, uploadPc, uploadSize, deletePc>>
    /\ PlainFrame

\* fetchDocuments: catch, console.error
PlainFetchFails(status) ==
    /\ docGets > 0
    /\ docGets' = docGets - 1
    /\ Answered(status)
    /\ UNCHANGED <<documents, docsLoading, uploadPc, uploadSize, deletePc>>
    /\ PlainFrame

\* uploadDocument(file), up to the await of the POST
PlainUpload(size) ==
    /\ uploadPc \in {"idle", "rejected"}
    /\ isAuthenticated(token)
    /\ uploadSize' = size
    /\ uploadPc' = IF TooLarge(size) THEN "rejected" ELSE "posting"
    /\ docsLoading' = IF TooLarge(size) THEN docsLoading ELSE TRUE
    /\ Answered(0)
    /\ UNCHANGED <<documents, docGets, deletePc>>
    /\ PlainFrame

PlainUploadPosted ==
    /\ uploadPc = "posting"
    /\ uploadPc' = "refetching"
    /\ Answered(200)
    /\ UNCHANGED <<documents, docsLoading, docGets, uploadSize, deletePc>>
    /\ PlainFrame

\* the POST is rejected: catch, console.error, finally
PlainUploadFails(status) ==
    /\ uploadPc = "posting"
    /\ uploadPc' = "idle"
    /\ docsLoading' = FALSE
    /\ Answered(status)
    /\ UNCHANGED <<documents, docGets, uploadSize, deletePc>>
    /\ PlainFrame

PlainUploadRefetched(data) ==
    /\ uploadPc = "refetching"
    /\ uploadPc' = "idle"
    /\ documents' = data
    /\ docsLoading' = FALSE
    /\ Answered(200)
    /\ UNCHANGED <<docGets, uploadSize, deletePc>>
    /\ PlainFrame

PlainUploadRefetchFails(status) ==
    /\ uploadPc = "refetching"
    /\ uploadPc' = "idle"
    /\ docsLoading' = FALSE
    /\ Answered(status)
    /\ UNCHANGED <<documents, docGets, uploadSize, deletePc>>
    /\ PlainFrame

\* deleteDocument(filename) of a listed document
PlainDelete ==
    /\ deletePc = "idle"
    /\ documents /= <<>>
    /\ isAuthenticated(token)
    /\ deletePc' = "deleting"
    /\ Answered(0)
    /\ UNCHANGED <<documents, docsLoading, docGets, uploadPc, uploadSize>>
    /\ PlainFrame

PlainDeleteDone ==
    /\ deletePc = "deleting"
    /\ deletePc' = "refetching"
    /\ Answered(200)
    /\ UNCHANGED <<documents, docsLoading, docGets, uploadPc, uploadSize>>
    /\ PlainFrame

PlainDeleteFails(status) ==
    /\ deletePc = "deleting"
    /\ deletePc' = "idle"
    /\ Answered(status)
    /\ UNCHANGED <<documents, docsLoading, docGets, uploadPc, uploadSize>>
    /\ PlainFrame

PlainDeleteRefetched(data) ==
    /\ deletePc = "refetching"
    /\ deletePc' = "idle"
    /\ documents' = data
    /\ Answered(200)
    /\ UNCHANGED <<docsLoading, docGets, uploadPc, uploadSize>>
    /\ PlainFrame

PlainDeleteRefetchFails(status) ==
    /\ deletePc = "refetching"
    /\ deletePc' = "idle"
    /\ Answered(status)
    /\ UNCHANGED <<documents, docsLoading, docGets, uploadPc, uploadSize>>
    /\ PlainFrame

PlainInit ==
    /\ \E t \in Tokens : InitAuth(t)
    /\ path = "chat" /\ page = "chat"
    /\ documents = <<>> /\ docsLoading = FALSE /\ docGets = 1
    /\ uploadPc = "idle" /\ uploadSize = 0 /\ deletePc = "idle"
    /\ pollTimers = <<>> /\ mountTimer = <<>> /\ staleReqs = 0 /\ lastStatus = 0
    /\ NoChat
    /\ NoSettings
    /\ NoTools

PlainNext ==
    \/ \E data \in PlainLists : PlainFetchOk(data)
    \/ \E status \in FailureStatuses : PlainFetchFails(status)
    \/ \E size \in FileSizes : PlainUpload(size)
    \/ PlainUploadPosted
    \/ \E status \in FailureStatuses : PlainUploadFails(status)
    \/ \E data \in PlainLists : PlainUploadRefetched(data)
    \/ \E status \in FailureStatuses : PlainUploadRefetchFails(status)
    \/ PlainDelete
    \/ PlainDeleteDone
    \/ \E status \in FailureStatuses : PlainDeleteFails(status)
    \/ \E data \in PlainLists : PlainDeleteRefetched(data)
    \/ \E status \in FailureStatuses : PlainDeleteRefetchFails(status)

SpecDocsPlain == PlainInit /\ [][PlainNext]_vars

----------------------------------------------------------------------------
(* useSettings (part_001): the revision that stores the non-sensitive      *)
(* fields only, mirrors the main model and key, and clears the key inputs. *)
(* Of the ten fields the model keeps the temperature, the rerank           *)
(* threshold, the two models, the two keys and useMainAsSide.  A number is *)
(* Num(n), n in hundredths; the other values a number field can take are   *)
(* NaN, Infinity and null.  A key of an object that may be missing is a    *)
(* sequence: <<>> when it is missing.                                      *)

Num(n) == [t |-> "number", v |-> n]
Special(t) == [t |-> t, v |-> 0]
IsFinite(x) == x.t = "number"

Settings(temperature, rerankThreshold, llmModel1, llmModel2, apiKey, sideApiKey, useMainAsSide) ==
    [temperature |-> temperature, rerankThreshold |-> rerankThreshold,
     llmModel1 |-> llmModel1, llmModel2 |-> llmModel2,
     apiKey |-> apiKey, sideApiKey |-> sideApiKey, useMainAsSide |-> useMainAsSide]
DEFAULT_SETTINGS == Settings(Num(20), Num(0), "", "", "", "", FALSE)
\* an object without keys
Partial == Settings(<<>>, <<>>, <<>>, <<>>, <<>>, <<>>, <<>>)
Fields == DOMAIN Partial

\* JSON.stringify of a number: NaN and the infinities are written as null
JsonNumber(x) == IF IsFinite(x) THEN x ELSE Special("null")

\* JSON.stringify(settingsToStore), as the object JSON.parse reads back
settingsToStore(st) ==
    [Partial EXCEPT !.temperature = <<JsonNumber(st.temperature)>>,
                    !.rerankThreshold = <<JsonNumber(st.rerankThreshold)>>,
                    !.llmModel1 = <<st.llmModel1>>, !.llmModel2 = <<st.llmModel2>>,
                    !.useMainAsSide = <<st.useMainAsSide>>]

\* { ...prev, ...newSettings }
Spread(prev, newSettings) ==
    [f \in Fields |-> IF newSettings[f] = <<>> THEN prev[f] ELSE newSettings[f][1]]

\* variant of Hydrate that ignores what is saved
HydrateDefaults(saved) == DEFAULT_SETTINGS
\* the initializer of useState: saved ? { ...DEFAULT_SETTINGS, ...JSON.parse(saved) }
Hydrate(saved) ==
    IF saved = <<>> THEN DEFAULT_SETTINGS ELSE Spread(DEFAULT_SETTINGS, saved[1])

\* variant of Mirrored that leaves the side model and key alone
MirroredNot(updated, newSettings) == updated
\* if (updated.useMainAsSide) the main model and key are copied to the side
Mirrored(updated, newSettings) ==
    IF ~updated.useMainAsSide THEN updated
    ELSE [updated EXCEPT
            !.llmModel2 = IF newSettings.llmModel1 /= <<>> THEN newSettings.llmModel1[1] ELSE @,
            !.sideApiKey = IF newSettings.apiKey /= <<>> THEN newSettings.apiKey[1] ELSE @]

\* the profile update is due when a model or a key is in the partial update
NeedsPut(newSettings) ==
    \/ newSettings.llmModel1 /= <<>> \/ newSettings.llmModel2 /= <<>>
    \/ newSettings.apiKey /= <<>> \/ newSettings.sideApiKey /= <<>>
\* the refetch follows when a key is in it
NeedsRefetch(newSettings) == newSettings.apiKey /= <<>> \/ newSettings.sideApiKey /= <<>>

\* obj[key], a key that obj does not have being undefined
Key(obj, key) == IF key \in DOMAIN obj THEN obj[key] ELSE <<>>

\* updatePayload: the touched fields under the backend's names
updatePayload(newSettings) ==
    [llm_model |-> newSettings.llmModel1, llm_side_model |-> newSettings.llmModel2,
     api_key |-> newSettings.apiKey, side_api_key |-> newSettings.sideApiKey,
     use_main_api_key_for_side |-> Key(newSettings, "use_main_api_key_for_side")]
\* the payload of the revision that does not know the mirroring flag
WholeUpdatePayload(newSettings) ==
    [llm_model |-> newSettings.llmModel1, llm_side_model |-> newSettings.llmModel2,
     api_key |-> newSettings.apiKey, side_api_key |-> newSettings.sideApiKey,
     use_main_api_key_for_side |-> <<>>]

Temperatures == { Num(20), Num(70), Num(250), Special("NaN"), Special("Infinity") }
RerankThresholds == { Num(-1000), Num(1500) }
Models == {"m1", "m2"}
Keys == {"", "k1"}
\* the partial updates the settings page sends, and those of one field
NewSettings ==
    { [Partial EXCEPT !.temperature = <<v>>] : v \in Temperatures }
      \cup { [Partial EXCEPT !.rerankThreshold = <<v>>] : v \in RerankThresholds }
      \cup { [Partial EXCEPT !.llmModel1 = <<m>>] : m \in Models }
      \cup { [Partial EXCEPT !.llmModel1 = <<m>>, !.apiKey = <<"">>] : m \in Models }
      \cup { [Partial EXCEPT !.llmModel2 = <<m>>, !.sideApiKey = <<"">>] : m \in Models }
      \cup { [Partial EXCEPT !.apiKey = <<k>>] : k \in Keys }
      \cup { [Partial EXCEPT !.sideApiKey = <<k>>] : k \in Keys }
\* the partial update of the useMainAsSide toggle
Toggle(checked, st) ==
    [Partial EXCEPT !.useMainAsSide = <<checked>>,
                    !.llmModel2 = <<IF checked THEN st.llmModel1 ELSE st.llmModel2>>,
                    !.sideApiKey = <<IF checked THEN st.apiKey ELSE st.sideApiKey>>]

\* what the settings page shows beside each slider
TemperatureShown(st) == st.temperature
RerankThresholdShown(st) == st.rerankThreshold

\* setSettings(next), and the persistence effect that follows
SetSettings(next) ==
    /\ settings' = next
    /\ storedSettings' = <<settingsToStore(next)>>

SettingsMounted == isAuthenticated(token)
Call(newSettings, shouldPersist) ==
    [newSettings |-> newSettings, shouldPersist |-> shouldPersist, reloaded |-> FALSE]

\* updateSettings(newSettings, shouldPersist), up to the await of the PUT; one
\* profile update at a time
updateSettings(newSettings, shouldPersist) ==
    /\ SettingsMounted
    /\ SetSettings(Mirrored(Spread(settings, newSettings), newSettings))
    /\ lastCall' = <<Call(newSettings, shouldPersist)>>
    /\ IF shouldPersist
          /\ (NeedsPut(newSettings) \/ Key(newSettings, "use_main_api_key_for_side") /= <<>>)
       THEN /\ settingsPc = "idle"
            /\ settingsPc' = "putting"
            /\ sentPut' = <<updatePayload(newSettings)>>
            /\ putRefetch' = ( \/ NeedsRefetch(newSettings)
                               \/ Key(newSettings, "use_main_api_key_for_side") = <<TRUE>> )
       ELSE sentPut' = <<>> /\ UNCHANGED <<settingsPc, putRefetch>>
    /\ UNCHANGED <<authVars, fetchPending>>
    /\ OutsideSettings

\* the PUT succeeds; the refetch follows when a key was sent
PutOk ==
    /\ settingsPc = "putting"
    /\ settingsPc' = IF putRefetch THEN "refetching" ELSE "idle"
    /\ lastCall' = <<>> /\ sentPut' = <<>>
    /\ UNCHANGED <<authVars, settings, storedSettings, putRefetch, fetchPending>>
    /\ OutsideSettings

\* the PUT or the refetch is rejected: logout on 401, console.error otherwise
UpdateRejected(status) ==
    /\ settingsPc \in {"putting", "refetching"}
    /\ settingsPc' = "idle"
    /\ IF status = 401 THEN logout ELSE UNCHANGED authVars
    /\ lastCall' = <<>> /\ sentPut' = <<>>
    /\ UNCHANGED <<settings, storedSettings, putRefetch, fetchPending>>
    /\ OutsideSettings

\* the refetch succeeds: the key inputs are cleared
Refetched ==
    /\ settingsPc = "refetching"
    /\ settingsPc' = "idle"
    /\ IF SettingsMounted
       THEN SetSettings([settings EXCEPT !.apiKey = "", !.sideApiKey = ""])
       ELSE UNCHANGED <<settings, storedSettings>>
    /\ lastCall' = <<>> /\ sentPut' = <<>>
    /\ UNCHANGED <<authVars, putRefetch, fetchPending>>
    /\ OutsideSettings

\* fetchData of the mount effect succeeds
FetchData(llm_model, llm_side_model) ==
    /\ fetchPending
    /\ fetchPending' = FALSE
    /\ IF SettingsMounted
       THEN SetSettings([settings EXCEPT !.llmModel1 = llm_model,
                                         !.llmModel2 = llm_side_model,
                                         !.apiKey = "", !.sideApiKey = ""])
       ELSE UNCHANGED <<settings, storedSettings>>
    /\ lastCall' = <<>> /\ sentPut' = <<>>
    /\ UNCHANGED <<authVars, settingsPc, putRefetch>>
    /\ OutsideSettings

\* fetchData is rejected
FetchDataRejected(status) ==
    /\ fetchPending
    /\ fetchPending' = FALSE
    /\ IF status = 401 THEN logout ELSE UNCHANGED authVars
    /\ lastCall' = <<>> /\ sentPut' = <<>>
    /\ UNCHANGED <<settings, storedSettings, settingsPc, putRefetch>>
    /\ OutsideSettings

\* the hook constructed from storage, its effects run
Constructed(saved, t) ==
    /\ settings = Hydrate(saved)
    /\ storedSettings = <<settingsToStore(Hydrate(saved))>>
    /\ settingsPc = "idle" /\ putRefetch = FALSE
    /\ fetchPending = isAuthenticated(t)

\* the page is loaded again: the hook is constructed from storage
Reload ==
    /\ SettingsMounted
    /\ SetSettings(Hydrate(storedSettings))
    /\ settingsPc' = "idle" /\ putRefetch' = FALSE
    /\ fetchPending' = TRUE
    /\ lastCall' = IF lastCall = <<>> THEN <<>>
                   ELSE <<[lastCall[1] EXCEPT !.reloaded = TRUE]>>
    /\ sentPut' = <<>>
    /\ UNCHANGED authVars
    /\ OutsideSettings

\* what the storage may hold at the start: nothing, what this hook wrote in
\* an earlier session, or the whole object an earlier revision wrote
SavedSettings ==
    { <<>>,
      <<settingsToStore(Settings(Num(70), Num(0), "m1", "m1", "", "", TRUE))>>,
      <<[f \in Fields |-> <<Settings(Num(70), Num(-1000), "m1", "m2", "k0", "", FALSE)[f]>>]>> }

SettingsInit ==
    /\ \E t \in Tokens : InitAuth(t)
    /\ \E saved \in SavedSettings : Constructed(saved, token)
    /\ lastCall = <<>> /\ sentPut = <<>>
    /\ path = "settings" /\ page = "settings"
    /\ NoChat
    /\ NoDocs
    /\ NoTools

SettingsNext ==
    \/ \E n \in NewSettings, p \in BOOLEAN : updateSettings(n, p)
    \/ \E checked \in BOOLEAN : updateSettings(Toggle(checked, settings), TRUE)
    \/ PutOk
    \/ \E status \in FailureStatuses : UpdateRejected(status)
    \/ Refetched
    \/ \E m1 \in Models \cup {""}, m2 \in Models \cup {""} : FetchData(m1, m2)
    \/ \E status \in FailureStatuses : FetchDataRejected(status)
    \/ Reload

SpecSettings == SettingsInit /\ [][SettingsNext]_vars

----------------------------------------------------------------------------
(* useSettings (useSettings.ts): the revision that stores the whole        *)
(* settings object, without mirroring and without refetch.                 *)

\* JSON.stringify(settings), as the object JSON.parse reads back
WholeSettings(st) ==
    [f \in Fields |->
        <<IF f \in {"temperature", "rerankThreshold"} THEN JsonNumber(st[f]) ELSE st[f]>>]

SetWholeSettings(next) ==
    /\ settings' = next
    /\ storedSettings' = <<WholeSettings(next)>>

\* updateSettings(newSettings, shouldPersist), up to the await of the PUT
WholeUpdateSettings(newSettings, shouldPersist) ==
    /\ SettingsMounted
    /\ SetWholeSettings(Spread(settings, newSettings))
    /\ lastCall' = <<Call(newSettings, shouldPersist)>>
    /\ IF shouldPersist /\ NeedsPut(newSettings)
       THEN /\ settingsPc = "idle" /\ settingsPc' = "putting"
            /\ sentPut' = <<WholeUpdatePayload(newSettings)>>
       ELSE sentPut' = <<>> /\ UNCHANGED settingsPc
    /\ UNCHANGED <<authVars, putRefetch, fetchPending>>
    /\ OutsideSettings

\* the PUT is answered: logout on 401
WholePutAnswered(status) ==
    /\ settingsPc = "putting"
    /\ settingsPc' = "idle"
    /\ IF status = 401 THEN logout ELSE UNCHANGED authVars
    /\ lastCall' = <<>> /\ sentPut' = <<>>
    /\ UNCHANGED <<settings, storedSettings, putRefetch, fetchPending>>
    /\ OutsideSettings

\* fetchData succeeds: userData.llm_model || configData.llm_model
WholeFetchData(llm_model, llm_side_model) ==
    /\ fetchPending
    /\ fetchPending' = FALSE
    /\ IF SettingsMounted
       THEN SetWholeSettings([settings EXCEPT !.llmModel1 = llm_model,
                                              !.llmModel2 = llm_side_model])
       ELSE UNCHANGED <<settings, storedSettings>>
    /\ lastCall' = <<>> /\ sentPut' = <<>>
    /\ UNCHANGED <<authVars, settingsPc, putRefetch>>
    /\ OutsideSettings

WholeFetchDataRejected(status) ==
    /\ fetchPending
    /\ fetchPending' = FALSE
    /\ IF status = 401 THEN logout ELSE UNCHANGED authVars
    /\ lastCall' = <<>> /\ sentPut' = <<>>
    /\ UNCHANGED <<settings, storedSettings, settingsPc, putRefetch>>
    /\ OutsideSettings

WholeReload ==
    /\ SettingsMounted
    /\ SetWholeSettings(Hydrate(storedSettings))
    /\ settingsPc' = "idle"
    /\ fetchPending' = TRUE
    /\ lastCall' = IF lastCall = <<>> THEN <<>>
                   ELSE <<[lastCall[1] EXCEPT !.reloaded = TRUE]>>
    /\ sentPut' = <<>>
    /\ UNCHANGED <<authVars, putRefetch>>
    /\ OutsideSettings

WholeInit ==
    /\ \E t \in Tokens : InitAuth(t)
    /\ \E saved \in { <<>>, <<WholeSettings(Settings(Num(70), Num(0), "m1", "m2", "", "", FALSE))>> } :
         /\ settings = Hydrate(saved)
         /\ storedSettings = <<WholeSettings(Hydrate(saved))>>
    /\ settingsPc = "idle" /\ putRefetch = FALSE /\ fetchPending = TRUE
    /\ lastCall = <<>> /\ sentPut = <<>>
    /\ path = "settings" /\ page = "settings"
    /\ NoChat
    /\ NoDocs
    /\ NoTools

WholeNext ==
    \/ \E n \in NewSettings, p \in BOOLEAN : WholeUpdateSettings(n, p)
    \/ \E status \in FailureStatuses \cup {200} : WholePutAnswered(status)
    \/ \E m1 \in Models, m2 \in Models : WholeFetchData(m1, m2)
    \/ \E status \in FailureStatuses : WholeFetchDataRejected(status)
    \/ WholeReload

SpecSettingsAll == WholeInit /\ [][WholeNext]_vars

----------------------------------------------------------------------------
(* scripts/bootstrap.sh: the secrets file is a sequence of tokens, a line  *)
(* break being the token EOL; a line is the tokens between two breaks.     *)

\* Most runs of the script in a row.
MaxRuns == 3
\* Most lines of the secrets file before the first run.
MaxLines == 2

EOL == "\n"
ENV_HEADER == <<"# Environment variables for RAG Experiments">>
KEY_NAMES == <<"JWT_SECRET_KEY", "ENCRYPTION_KEY">>

\* KEY=VALUE as the tokens of one line
Assignment(key, value) == <<key, "=", value>>

\* echo "line" >> "$ENV_FILE"
Echo(file, line) == file \o line \o <<EOL>>

\* the lines of a file as grep reads them: a last line needs no line break
RECURSIVE FileLinesFrom(_, _)
FileLinesFrom(file, cur) ==
    IF file = <<>> THEN (IF cur = <<>> THEN <<>> ELSE <<cur>>)
    ELSE IF Head(file) = EOL THEN <<cur>> \o FileLinesFrom(Tail(file), <<>>)
    ELSE FileLinesFrom(Tail(file), Append(cur, Head(file)))
FileLines(file) == FileLinesFrom(file, <<>>)

\* the pattern "^${KEY_NAME}=" on one line
StartsWithKey(line, key) == Len(line) >= 2 /\ line[1] = key /\ line[2] = "="
\* the same pattern without its anchor
ContainsKey(line, key) ==
    \E i \in 1..Len(line) - 1 : line[i] = key /\ line[i + 1] = "="

GrepUnanchored(key, file) ==
    \E i \in 1..Len(FileLines(file)) : ContainsKey(FileLines(file)[i], key)
\* grep -q "^${KEY_NAME}=" "$ENV_FILE"
Grep(key, file) ==
    \E i \in 1..Len(FileLines(file)) : StartsWithKey(FileLines(file)[i], key)

\* what openssl rand prints; nothing when the command fails
NewValues == {"g1", "g2", ""}

check_and_add_key(file, key, value) ==
    IF ~Grep(key, file)
    THEN Echo(Echo(file, <<>>), Assignment(key, value))
    ELSE file

\* lines 12-16: the file is created with its header when it is missing
CreateEnvFile ==
    /\ bootPc = "idle"
    /\ bootRuns < MaxRuns
    /\ envExists' = TRUE
    /\ envFile' = IF envExists THEN envFile ELSE Echo(envFile, ENV_HEADER)
    /\ bootPc' = "jwt"
    /\ UNCHANGED <<bootRuns, clientVars, tooltipVars, bubbleVars, extraVars>>

\* line 33
AddJwtKey(value) ==
    /\ bootPc = "jwt"
    /\ envFile' = check_and_add_key(envFile, KEY_NAMES[1], value)
    /\ bootPc' = "fernet"
    /\ UNCHANGED <<envExists, bootRuns, clientVars, tooltipVars, bubbleVars, extraVars>>

\* lines 34-35
AddFernetKey(value) ==
    /\ bootPc = "fernet"
    /\ envFile' = check_and_add_key(envFile, KEY_NAMES[2], value)
    /\ bootPc' = "idle"
    /\ bootRuns' = bootRuns + 1
    /\ UNCHANGED <<envExists, clientVars, tooltipVars, bubbleVars, extraVars>>

\* lines a secrets file may hold before the first run: assignments of the
\* two keys, a commented-out and an indented assignment, another variable,
\* an empty line
EnvLines ==
    { Assignment(KEY_NAMES[1], "o1"), Assignment(KEY_NAMES[2], "o2"),
      <<"#">> \o Assignment(KEY_NAMES[1], "o3"),
      <<" ">> \o Assignment(KEY_NAMES[2], "o4"),
      Assignment("API_URL", "u"), <<>> }

RECURSIVE JoinLines(_)
JoinLines(lines) ==
    IF lines = <<>> THEN <<>> ELSE Echo(<<>>, Head(lines)) \o JoinLines(Tail(lines))

\* a file of lines, its last line with or without a line break
EnvFiles ==
    LET texts == UNION { [1..n -> EnvLines] : n \in 0..MaxLines }
    IN  { JoinLines(t) : t \in texts }
        \cup { SubSeq(JoinLines(t), 1, Len(JoinLines(t)) - 1) : t \in texts \ {<<>>} }

BootInit ==
    /\ \/ envExists = FALSE /\ envFile = <<>>
       \/ envExists = TRUE /\ envFile \in EnvFiles
    /\ bootPc = "idle"
    /\ bootRuns = 0
    /\ NoClient
    /\ NoTooltip
    /\ NoBubble
    /\ NoExtra

BootNext ==
    \/ CreateEnvFile
    \/ \E value \in NewValues : AddJwtKey(value)
    \/ \E value \in NewValues : AddFernetKey(value)

SpecBootstrap == BootInit /\ [][BootNext]_vars


----------------------------------------------------------------------------
(* CitationTooltip (components/ui/CustomSelect.tsx): formatChunk.  A text  *)
(* is the sequence of its characters.                                      *)

\* Longest excerpt, in characters.
MaxText == 5

LF == "\n"
Capitals == {"A"}
Whitespace == {LF, " "}
\* a line break, a period, a capital, a small letter, a space
TextChars == {LF, ".", " ", "x"} \cup Capitals
Texts == UNION { [1..n -> TextChars] : n \in 0..MaxText }

\* text.replace(/(?<!\n)(?<!\.)(\n)(?!\n)(?![A-Z])/g, ' ')
ReplaceBreaks(text) ==
    [i \in 1..Len(text) |->
        IF /\ text[i] = LF
           /\ (i > 1 => text[i - 1] \notin {LF, "."})
           /\ (i < Len(text) => text[i + 1] \notin {LF} \cup Capitals)
        THEN " " ELSE text[i]]

\* text.trim()
Trim(text) ==
    LET inked == { i \in 1..Len(text) : text[i] \notin Whitespace }
    IN  IF inked = {} THEN <<>>
        ELSE SubSeq(text, CHOOSE i \in inked : \A j \in inked : i <= j,
                          CHOOSE i \in inked : \A j \in inked : i >= j)

\* text.substring(matchStart.index) for the match of /[A-Z]/, when there is one
FromFirstCapital(text) ==
    LET caps == { i \in 1..Len(text) : text[i] \in Capitals }
    IN  SubSeq(text, CHOOSE i \in caps : \A j \in caps : i <= j, Len(text))

\* variant of ThroughLastPeriod that drops the last period as well
BeforeLastPeriod(text) ==
    LET dots == { i \in 1..Len(text) : text[i] = "." }
    IN  IF dots = {} THEN text
        ELSE SubSeq(text, 1, (CHOOSE i \in dots : \A j \in dots : i >= j) - 1)
\* text.substring(0, lastPeriodIndex + 1) when lastIndexOf('.') is not -1
ThroughLastPeriod(text) ==
    LET dots == { i \in 1..Len(text) : text[i] = "." }
    IN  IF dots = {} THEN text
        ELSE SubSeq(text, 1, CHOOSE i \in dots : \A j \in dots : i >= j)

formatChunk(text) ==
    LET trimmed == Trim(ReplaceBreaks(text))
    IN  IF \E i \in 1..Len(trimmed) : trimmed[i] \in Capitals
        THEN ThroughLastPeriod(FromFirstCapital(trimmed))
        ELSE trimmed

\* Most calls of formatChunk on one excerpt.
MaxPasses == 2

\* formatChunk applied to the text at hand
FormatChunk ==
    /\ chunkPasses < MaxPasses
    /\ chunkText' = formatChunk(chunkText)
    /\ chunkPasses' = chunkPasses + 1
    /\ UNCHANGED <<chunkInput, clientVars, bootVars, bubbleVars, extraVars>>

TooltipInit ==
    /\ chunkInput \in Texts
    /\ chunkText = chunkInput
    /\ chunkPasses = 0
    /\ NoClient
    /\ NoBoot
    /\ NoBubble
    /\ NoExtra

TooltipNext == FormatChunk

SpecTooltip == TooltipInit /\ [][TooltipNext]_vars


----------------------------------------------------------------------------
(* MessageBubble (components/chat/MessageBubble.tsx): processText on one   *)
(* text child of the rendered markdown.  A text is the sequence of its     *)
(* characters.                                                             *)

\* Longest text child, in characters.
MaxNode == 6

Digits == {"0", "2"}
NodeChars == {"[", "]", "a"} \cup Digits
NodeTexts == UNION { [1..n -> NodeChars] : n \in 0..MaxNode }

Source(index, source) == [index |-> index, source |-> source]
\* the sources field of a message: missing, empty, one source, or three
\* sources two of which share an index
SourceFields ==
    { <<>>, << <<>> >>, << <<Source(2, "doc.pdf")>> >>,
      << <<Source(2, "doc.pdf"), Source(20, "notes.md"), Source(2, "copy.pdf")>> >> }

\* the number of leading characters of text that \d+ takes
RECURSIVE DigitRun(_)
DigitRun(text) ==
    IF text /= <<>> /\ Head(text) \in Digits THEN 1 + DigitRun(Tail(text)) ELSE 0

\* the length of the match of \[\d+\] at the start of text, 0 without one
MatchLength(text) ==
    IF text /= <<>> /\ Head(text) = "["
    THEN LET k == DigitRun(Tail(text))
         IN  IF k >= 1 /\ Len(text) >= k + 2 /\ text[k + 2] = "]" THEN k + 2 ELSE 0
    ELSE 0

\* text.split(/(\[\d+\])/g): the texts between the matches, each match after
\* the text it follows
RECURSIVE Split(_, _)
Split(text, cur) ==
    IF text = <<>> THEN <<cur>>
    ELSE IF MatchLength(text) > 0
         THEN <<cur, SubSeq(text, 1, MatchLength(text))>>
              \o Split(SubSeq(text, MatchLength(text) + 1, Len(text)), <<>>)
    ELSE Split(Tail(text), Append(cur, Head(text)))

\* part.match(/^\[(\d+)\]$/)
IsCitation(part) == part /= <<>> /\ MatchLength(part) = Len(part)

\* parseInt of a run of digits
RECURSIVE parseInt(_)
parseInt(digits) ==
    IF digits = <<>> THEN 0
    ELSE 10 * parseInt(SubSeq(digits, 1, Len(digits) - 1))
         + (IF digits[Len(digits)] = "2" THEN 2 ELSE 0)

\* variant of Find that takes the number for a position in the list
FindAt(srcs, index) == IF index \in 1..Len(srcs) THEN <<srcs[index]>> ELSE <<>>
\* message.sources?.find(s => s.index === index)
Find(srcs, index) ==
    LET hits == { i \in 1..Len(srcs) : srcs[i].index = index }
    IN  IF hits = {} THEN <<>> ELSE <<srcs[CHOOSE i \in hits : \A j \in hits : i <= j]>>

\* the children processText returns: a string, or a CitationTooltip element
StringChild(part) == [kind |-> "string", text |-> part, key |-> 0, source |-> <<>>]
CitationTooltip(key, source) ==
    [kind |-> "CitationTooltip", text |-> <<>>, key |-> key, source |-> <<source>>]

processText(srcs, text) ==
    IF srcs = <<>> \/ srcs[1] = <<>>
    THEN [array |-> FALSE, children |-> <<StringChild(text)>>]
    ELSE LET parts == Split(text, <<>>)
         IN  [array |-> TRUE,
              children |->
                [i \in 1..Len(parts) |->
                    IF IsCitation(parts[i])
                       /\ Find(srcs[1], parseInt(SubSeq(parts[i], 2, Len(parts[i]) - 1))) /= <<>>
                    THEN CitationTooltip(i - 1,
                            Find(srcs[1], parseInt(SubSeq(parts[i], 2, Len(parts[i]) - 1)))[1])
                    ELSE StringChild(parts[i])]]

\* the paragraph or list item renderer maps processText over a text child
RenderChild ==
    /\ bubbleChildren = <<>>
    /\ bubbleChildren' = <<processText(bubbleSources, textNode)>>
    /\ UNCHANGED <<textNode, bubbleSources, clientVars, bootVars, tooltipVars, extraVars>>

BubbleInit ==
    /\ textNode \in NodeTexts
    /\ bubbleSources \in SourceFields
    /\ bubbleChildren = <<>>
    /\ NoClient
    /\ NoBoot
    /\ NoTooltip
    /\ NoExtra

BubbleNext == RenderChild

SpecBubble == BubbleInit /\ [][BubbleNext]_vars


----------------------------------------------------------------------------
(* The useState initializer of useSettings (both revisions, lines 39-42):  *)
(* what it makes of the text found under rag_settings.  A text is the      *)
(* empty string, the JSON text of an object, or a text JSON.parse rejects. *)

EmptyText == [empty |-> TRUE, json |-> <<>>]
NotJson == [empty |-> FALSE, json |-> <<>>]
JsonText(obj) == [empty |-> FALSE, json |-> <<obj>>]

\* how a call ends: with a value, or with an exception
Returned(v) == [threw |-> <<>>, value |-> <<v>>]
Thrown(e) == [threw |-> <<e>>, value |-> <<>>]

\* JSON.parse(text): the object, or a SyntaxError
JSON_parse(text) ==
    IF text.json = <<>> THEN Thrown("SyntaxError") ELSE Returned(text.json[1])

\* saved ? { ...DEFAULT_SETTINGS, ...JSON.parse(saved) } : DEFAULT_SETTINGS;
\* the empty string is falsy, and an exception of JSON.parse leaves through
\* the initializer
Initializer(saved) ==
    IF saved = <<>> \/ saved[1].empty THEN Returned(DEFAULT_SETTINGS)
    ELSE IF JSON_parse(saved[1]).threw /= <<>> THEN JSON_parse(saved[1])
    ELSE Returned(Hydrate(JSON_parse(saved[1]).value))

\* the objects a stored text may hold: any subset of the fields
StoredObjects ==
    { Settings(t, r, m1, m2, k1, k2, u) :
        t \in {<<>>, <<Num(70)>>}, r \in {<<>>, <<Num(1500)>>},
        m1 \in {<<>>, <<"m1">>}, m2 \in {<<>>, <<"m2">>},
        k1 \in {<<>>, <<"k1">>}, k2 \in {<<>>, <<"">>}, u \in {<<>>, <<TRUE>>} }
SavedItems == { <<>>, <<EmptyText>>, <<NotJson>> } \cup { <<JsonText(o)>> : o \in StoredObjects }

\* the hook is constructed; when the initializer returns, the persistence
\* effect (part_001:49-61) writes the non-sensitive fields back
ConstructSettings ==
    /\ initialState = <<>>
    /\ initialState' = <<Initializer(savedItem)>>
    /\ savedItem' = IF Initializer(savedItem).threw /= <<>> THEN savedItem
                    ELSE <<JsonText(settingsToStore(Initializer(savedItem).value[1]))>>
    /\ UNCHANGED <<clientVars, bootVars, tooltipVars, bubbleVars, backendVars, streamVars, formVars, loginVars>>

\* the page is left; the stored text stays
LeavePage ==
    /\ initialState /= <<>>
    /\ initialState' = <<>>
    /\ UNCHANGED <<savedItem, clientVars, bootVars, tooltipVars, bubbleVars, backendVars, streamVars, formVars, loginVars>>

HydrationInit ==
    /\ savedItem \in SavedItems
    /\ initialState = <<>>
    /\ NoClient
    /\ NoBoot
    /\ NoTooltip
    /\ NoBubble
    /\ NoBackend
    /\ NoStream
    /\ NoForm
    /\ NoLogin

HydrationNext == ConstructSettings \/ LeavePage

SpecHydration == HydrationInit /\ [][HydrationNext]_vars


----------------------------------------------------------------------------
(* useDocuments with the backend it polls (useDocuments.ts:18-32, 78-108): *)
(* the chat page stays open, the backend works through its documents, and  *)
(* a list request is answered with the backend's list or fails.            *)

\* Most documents the backend stores.
MaxDocs == 2

Statuses == {"pending", "processing", "completed", "failed"}
BackendLists == UNION { [1..n -> Statuses] : n \in 0..MaxDocs }

\* the ingestion worker: pending, then processing, then completed or failed
NextStatuses(status) ==
    CASE status = "pending" -> {"processing"}
      [] status = "processing" -> {"completed", "failed"}
      [] OTHER -> {}

BackendAdvance ==
    /\ \E i \in 1..Len(backendDocs) : \E status \in NextStatuses(backendDocs[i]) :
         backendDocs' = [backendDocs EXCEPT ![i] = status]
    /\ UNCHANGED <<clientVars, bootVars, tooltipVars, bubbleVars, hydrationVars, streamVars, formVars, loginVars>>

\* a list request is answered: with the backend's list, or it fails
ListAnswered ==
    \/ DocsOk(backendDocs)
    \/ DocsRejected(500)

PollingInit ==
    /\ \E t \in Tokens : InitAuth(t)
    /\ path = "chat" /\ page = "chat"
    /\ DocsAre(DocsMounted(token))
    /\ staleReqs = 0 /\ lastStatus = 0
    /\ backendDocs \in BackendLists
    /\ NoChat
    /\ NoSettings
    /\ NoBoot
    /\ NoTooltip
    /\ NoBubble
    /\ NoHydration
    /\ NoStream
    /\ NoForm
    /\ NoLogin

PollingNext ==
    \/ ListAnswered
    \/ Tick
    \/ PollFires
    \/ MountIntervalFires
    \/ BackendAdvance

\* timers fire, requests are answered and the worker goes on
SpecPolling ==
    /\ PollingInit /\ [][PollingNext]_vars
    /\ WF_vars(ListAnswered) /\ WF_vars(Tick) /\ WF_vars(PollFires)
    /\ WF_vars(MountIntervalFires) /\ WF_vars(BackendAdvance)


----------------------------------------------------------------------------
(* sendMessage reading one response body (useChat.ts:451-496), no other    *)
(* handler running: the body is fixed, the reads cut it into chunks at any *)
(* token, and the lines of a read are processed within the step.           *)

\* Longest response body, in tokens.
MaxStream == 6

StreamTokens ==
    { NL, DATA, Delta(<<"a">>), SourcesEv(<<1>>), ErrorEv(<<"e">>) }
Streams == UNION { [1..n -> StreamTokens] : n \in 0..MaxStream }

\* for (const line of lines) processLine(line)
RECURSIVE ProcessLines(_, _)
ProcessLines(st, lines) ==
    IF lines = <<>> THEN st ELSE ProcessLines(processLine(st, Head(lines)), Tail(lines))

\* variant of KeepLast that starts every read with an empty buffer
KeepNothing(parts) == <<>>
\* buffer = parts.pop() || ''
KeepLast(parts) == Last(parts)

\* the body of the loop for one chunk: the reducer state and the buffer after it
ReadChunk(st, buf, chunk) ==
    LET parts == SplitNLNL(buf \o chunk, <<>>)
    IN  [st |-> ProcessLines(st, LinesOf(Front(parts))), buffer |-> KeepLast(parts)]

\* the done branch and the final update
EndOfStream(st, buf) ==
    FinalUpdate(IF TrimNonEmpty(buf) THEN ProcessLines(st, SplitNL(buf, <<>>)) ELSE st)

\* where a read that returns the tokens up to position k has ended: between
\* the two newlines of a separator, or inside a line
CutKind(body, k) ==
    IF k >= Len(body) THEN {}
    ELSE IF body[k] = NL /\ body[k + 1] = NL THEN {"separator"}
    ELSE IF body[k] /= NL /\ body[k + 1] /= NL THEN {"event"}
    ELSE {}

\* reader.read() returns the next n tokens of the body
StreamRead(n) ==
    /\ sendPc = "reading"
    /\ streamPos + n <= Len(stream)
    /\ LET r == ReadChunk(CurSt, buffer, SubSeq(stream, streamPos + 1, streamPos + n)) IN
       /\ Locals(r.st)
       /\ Commit(r.st, isLoading)
       /\ buffer' = r.buffer
    /\ streamPos' = streamPos + n
    /\ cutKinds' = cutKinds \cup CutKind(stream, streamPos + n)
    /\ UNCHANGED <<authVars, sendPc, sendExit, lineQueue, histReq, clearReq, expected,
                   errorEvent, stream>>
    /\ UNCHANGED <<routeVars, docsVars, settingsVars, bootVars, tooltipVars, bubbleVars,
                   hydrationVars, backendVars, formVars, loginVars>>

\* reader.read() returns done once the body is read: the rest of the buffer
\* is parsed, the final update is made, finally clears the loading flag
StreamDone ==
    /\ sendPc = "reading"
    /\ streamPos = Len(stream)
    /\ Commit(EndOfStream(CurSt, buffer), FALSE)
    /\ Finish("stream_end")
    /\ UNCHANGED <<authVars, histReq, clearReq, expected, errorEvent, streamVars>>
    /\ UNCHANGED <<routeVars, docsVars, settingsVars, bootVars, tooltipVars, bubbleVars,
                   hydrationVars, backendVars, formVars, loginVars>>

\* sendMessage has appended the question and the response has arrived
StreamInit ==
    /\ \E t \in Tokens : InitAuth(t)
    /\ path = "chat" /\ page = "chat"
    /\ chatMounted = TRUE /\ renderError = FALSE
    /\ \E q \in Questions : messages = <<UserMessage(q)>>
    /\ isLoading = TRUE
    /\ sendPc = "reading" /\ sendExit = "none"
    /\ fullContent = <<>> /\ sources = <<>> /\ isFirstChunk = TRUE
    /\ buffer = <<>> /\ lineQueue = <<>>
    /\ histReq = "none" /\ clearReq = "none" /\ expected = <<>> /\ errorEvent = <<>>
    /\ stream \in Streams
    /\ streamPos = 0
    /\ cutKinds = {}
    /\ NoDocs
    /\ NoSettings
    /\ NoBoot
    /\ NoTooltip
    /\ NoBubble
    /\ NoHydration
    /\ NoBackend
    /\ NoForm
    /\ NoLogin

StreamNext ==
    \/ \E n \in 1..MaxStream : StreamRead(n)
    \/ StreamDone

SpecStream == StreamInit /\ [][StreamNext]_vars


----------------------------------------------------------------------------
(* ChatPage (ChatPage.tsx:21-27, 71-91): the form that calls sendMessage.  *)
(* An invocation is counted from its call to its return; what its response *)
(* carries is left open.  The page is a route element: leaving the route   *)
(* unmounts it, and the invocations it started go on without it.           *)

\* Longest text typed into the input, and most submits of one page.
MaxInput == 2
MaxSends == 2

InputTexts == UNION { [1..n -> {"q", " "}] : n \in 0..MaxInput }
\* value.trim() is not empty
NonBlank(value) == \E i \in 1..Len(value) : value[i] /= " "

\* disabled={isLoading} of the input and of the submit button
Disabled(loading) == loading

\* the user types into the input
TypeText(value) ==
    /\ chatMounted /\ ~Disabled(isLoading)
    /\ inputValue' = value
    /\ UNCHANGED <<sendsInFlight, staleSends>>
    /\ UNCHANGED <<authVars, chatVars, routeVars, docsVars, settingsVars, bootVars,
                   tooltipVars, bubbleVars, hydrationVars, backendVars, streamVars, loginVars>>

\* handleSubmit: Enter in the input or the submit button; sendMessage runs
\* up to its await (the user message, the loading flag), the input is emptied
HandleSubmit ==
    /\ chatMounted /\ ~Disabled(isLoading)
    /\ Len(messages) < 2 * MaxSends
    /\ IF NonBlank(inputValue)
       THEN /\ messages' = Append(messages, UserMessage(inputValue))
            /\ isLoading' = TRUE
            /\ sendsInFlight' = sendsInFlight + 1
            /\ inputValue' = <<>>
       ELSE UNCHANGED <<messages, isLoading, sendsInFlight, inputValue>>
    /\ UNCHANGED <<authVars, chatMounted, renderError, sendPc, sendExit, fullContent,
                   sources, isFirstChunk, buffer, lineQueue, histReq, clearReq, expected,
                   errorEvent, staleSends>>
    /\ UNCHANGED <<routeVars, docsVars, settingsVars, bootVars, tooltipVars, bubbleVars,
                   hydrationVars, backendVars, streamVars, loginVars>>

\* an invocation of the mounted page returns, with or without an answer in
\* the transcript: finally clears the loading flag
InvocationReturns(answered) ==
    /\ chatMounted /\ sendsInFlight > 0
    /\ sendsInFlight' = sendsInFlight - 1
    /\ isLoading' = FALSE
    /\ messages' = IF answered THEN Append(messages, AssistantMessage(<<"a">>, TRUE, <<>>))
                   ELSE messages
    /\ UNCHANGED <<authVars, chatMounted, renderError, sendPc, sendExit, fullContent,
                   sources, isFirstChunk, buffer, lineQueue, histReq, clearReq, expected,
                   errorEvent, inputValue, staleSends>>
    /\ UNCHANGED <<routeVars, docsVars, settingsVars, bootVars, tooltipVars, bubbleVars,
                   hydrationVars, backendVars, streamVars, loginVars>>

\* the sidebar navigates to another page: the chat page unmounts, its state
\* is gone and its invocations stay in flight
LeaveChat ==
    /\ chatMounted
    /\ staleSends + sendsInFlight <= MaxStale
    /\ chatMounted' = FALSE /\ messages' = <<>> /\ isLoading' = FALSE
    /\ inputValue' = <<>>
    /\ staleSends' = staleSends + sendsInFlight
    /\ sendsInFlight' = 0
    /\ path' = "settings" /\ page' = "settings"
    /\ UNCHANGED <<authVars, renderError, sendPc, sendExit, fullContent, sources,
                   isFirstChunk, buffer, lineQueue, histReq, clearReq, expected, errorEvent>>
    /\ UNCHANGED <<docsVars, settingsVars, bootVars, tooltipVars, bubbleVars,
                   hydrationVars, backendVars, streamVars, loginVars>>

\* the sidebar navigates back: a new chat page mounts, useState(false)
EnterChat ==
    /\ ~chatMounted
    /\ chatMounted' = TRUE
    /\ path' = "chat" /\ page' = "chat"
    /\ UNCHANGED <<authVars, messages, isLoading, renderError, sendPc, sendExit,
                   fullContent, sources, isFirstChunk, buffer, lineQueue, histReq,
                   clearReq, expected, errorEvent, formVars>>
    /\ UNCHANGED <<docsVars, settingsVars, bootVars, tooltipVars, bubbleVars,
                   hydrationVars, backendVars, streamVars, loginVars>>

\* an invocation of an unmounted page returns: its updates are dropped
StaleSendReturns ==
    /\ staleSends > 0
    /\ staleSends' = staleSends - 1
    /\ UNCHANGED <<clientVars, inputValue, sendsInFlight>>
    /\ UNCHANGED <<bootVars, tooltipVars, bubbleVars, hydrationVars, backendVars, streamVars, loginVars>>

FormInit ==
    /\ \E t \in Tokens : InitAuth(t)
    /\ path = "chat" /\ page = "chat"
    /\ chatMounted = TRUE /\ renderError = FALSE
    /\ messages = <<>> /\ isLoading = FALSE
    /\ sendPc = "idle" /\ sendExit = "none"
    /\ fullContent = <<>> /\ sources = <<>> /\ isFirstChunk = TRUE
    /\ buffer = <<>> /\ lineQueue = <<>>
    /\ histReq = "none" /\ clearReq = "none" /\ expected = <<>> /\ errorEvent = <<>>
    /\ inputValue = <<>> /\ sendsInFlight = 0 /\ staleSends = 0
    /\ NoDocs
    /\ NoSettings
    /\ NoBoot
    /\ NoTooltip
    /\ NoBubble
    /\ NoHydration
    /\ NoBackend
    /\ NoStream
    /\ NoLogin

FormNext ==
    \/ \E value \in InputTexts : TypeText(value)
    \/ HandleSubmit
    \/ \E answered \in BOOLEAN : InvocationReturns(answered)
    \/ LeaveChat
    \/ EnterChat
    \/ StaleSendReturns

SpecForm == FormInit /\ [][FormNext]_vars


----------------------------------------------------------------------------
(* LoginPage (LoginPage.tsx:8-43): the submit handler and the banner, which *)
(* shows the state 'error' and is empty when there is nothing to show.     *)

\* Most banner timeouts pending at once.
MaxTimeouts == 2

NoBanner == ""
RegistrationSuccessful == "Registration successful! Please login."
LoginErrorOccurred == "An error occurred"
\* err.response?.data?.detail of a rejected request: missing, or a text
Details == { <<>>, <<"Incorrect email or password">> }
BannerDelay == 3000

\* the Login and Register tabs
SetIsLogin(mode) ==
    /\ page = "login"
    /\ isLogin' = mode
    /\ UNCHANGED <<loginError, loginLoading, loginPc, bannerTimers>>
    /\ UNCHANGED <<clientVars, bootVars, tooltipVars, bubbleVars, hydrationVars,
                   backendVars, streamVars, formVars>>

\* handleSubmit up to its await: the submit button is disabled while loading
LoginSubmit ==
    /\ page = "login" /\ ~loginLoading
    /\ loginLoading' = TRUE
    /\ loginError' = NoBanner
    /\ loginPc' = IF isLogin THEN "token" ELSE "register"
    /\ UNCHANGED <<isLogin, bannerTimers>>
    /\ UNCHANGED <<clientVars, bootVars, tooltipVars, bubbleVars, hydrationVars,
                   backendVars, streamVars, formVars>>

\* the token request succeeds: login(access_token), navigate('/'); the page
\* unmounts and its pending timeouts find nothing to update
TokenAnswered(newToken) ==
    /\ loginPc = "token"
    /\ login(newToken)
    /\ path' = RouteElement(newToken, "root") /\ page' = RouteElement(newToken, "root")
    /\ isLogin' = TRUE /\ loginError' = NoBanner /\ loginLoading' = FALSE
    /\ loginPc' = "idle" /\ bannerTimers' = <<>>
    /\ UNCHANGED <<chatVars, docsVars, settingsVars>>
    /\ UNCHANGED <<bootVars, tooltipVars, bubbleVars, hydrationVars, backendVars,
                   streamVars, formVars>>

\* the registration succeeds: login mode, the banner, its timeout; finally
RegisterAnswered ==
    /\ loginPc = "register"
    /\ Len(bannerTimers) < MaxTimeouts
    /\ isLogin' = TRUE
    /\ loginError' = RegistrationSuccessful
    /\ bannerTimers' = Append(bannerTimers, 0)
    /\ loginLoading' = FALSE
    /\ loginPc' = "idle"
    /\ UNCHANGED <<clientVars, bootVars, tooltipVars, bubbleVars, hydrationVars,
                   backendVars, streamVars, formVars>>

\* either request is rejected: the detail or the generic text; finally
SubmitRejected(detail) ==
    /\ loginPc \in {"token", "register"}
    /\ loginError' = IF detail = <<>> THEN LoginErrorOccurred ELSE detail[1]
    /\ loginLoading' = FALSE
    /\ loginPc' = "idle"
    /\ UNCHANGED <<isLogin, bannerTimers>>
    /\ UNCHANGED <<clientVars, bootVars, tooltipVars, bubbleVars, hydrationVars,
                   backendVars, streamVars, formVars>>

\* time passes, as long as no timeout is due
BannerTick ==
    /\ bannerTimers /= <<>>
    /\ \A i \in 1..Len(bannerTimers) : bannerTimers[i] < BannerDelay
    /\ bannerTimers' = [i \in 1..Len(bannerTimers) |-> bannerTimers[i] + TickMs]
    /\ UNCHANGED <<isLogin, loginError, loginLoading, loginPc>>
    /\ UNCHANGED <<clientVars, bootVars, tooltipVars, bubbleVars, hydrationVars,
                   backendVars, streamVars, formVars>>

\* the callback of setTimeout: setError('')
ClearBanner(banner) == NoBanner

\* the oldest timeout is due: its callback runs
BannerTimeout ==
    /\ bannerTimers /= <<>> /\ Head(bannerTimers) >= BannerDelay
    /\ bannerTimers' = Tail(bannerTimers)
    /\ loginError' = ClearBanner(loginError)
    /\ UNCHANGED <<isLogin, loginLoading, loginPc>>
    /\ UNCHANGED <<clientVars, bootVars, tooltipVars, bubbleVars, hydrationVars,
                   backendVars, streamVars, formVars>>

LoginInit ==
    /\ NoClient
    /\ isLogin = TRUE /\ loginError = NoBanner /\ loginLoading = FALSE
    /\ loginPc = "idle" /\ bannerTimers = <<>>
    /\ NoBoot
    /\ NoTooltip
    /\ NoBubble
    /\ NoHydration
    /\ NoBackend
    /\ NoStream
    /\ NoForm

LoginNext ==
    \/ \E mode \in BOOLEAN : SetIsLogin(mode)
    \/ LoginSubmit
    \/ \E t \in Tokens : TokenAnswered(t)
    \/ RegisterAnswered
    \/ \E detail \in Details : SubmitRejected(detail)
    \/ BannerTick
    \/ BannerTimeout

SpecLogin == LoginInit /\ [][LoginNext]_vars


----------------------------------------------------------------------------
(* Properties of sendMessage *)

\* the question of the turn is still in the transcript
TurnInTranscript == \E i \in 1..Len(messages) : messages[i] \in { UserMessage(q) : q \in Questions }

\* C1: once the stream of a successful response has ended, the assistant
\* message of the turn holds the delta.content fragments of the stream,
\* concatenated in arrival order.
C1_StreamAccumulation ==
    ( /\ sendPc = "returned" /\ sendExit = "stream_end"
      /\ chatMounted /\ TurnInTranscript
      /\ expected /= <<>> )
    => /\ Last(messages).role = "assistant"
       /\ Last(messages).content = expected

C1_Witness ==
    /\ sendPc = "returned" /\ sendExit = "stream_end"
    /\ chatMounted /\ TurnInTranscript
    /\ expected = <<"b", "a">>
    /\ Last(messages).content = <<"b", "a">>
    /\ Last(messages).sources = <<1>>

\* C2: a sources event processed before the first delta.content is kept in
\* the local list until that delta, and the assistant message appended on
\* that delta carries the list in the very step that appends it.
C2_SourcesBeforeContent ==
    [][ ( /\ isFirstChunk /\ chatMounted'
          /\ lineQueue /= <<>> /\ lineQueue' = Tail(lineQueue) )
        => LET line == Head(lineQueue) IN
           /\ \A s \in {<<1>>} :
                 line = <<DATA, SourcesEv(s)>> => sources' = s /\ isFirstChunk'
           /\ (\A s \in {<<1>>} : line /= <<DATA, SourcesEv(s)>>) => sources' = sources
           /\ ~isFirstChunk' =>
                 /\ Len(messages') = Len(messages) + 1
                 /\ Last(messages').role = "assistant"
                 /\ Last(messages').hasSources
                 /\ Last(messages').sources = sources
      ]_vars

\* the sources have been processed and the first delta is next
C2_Witness ==
    /\ chatMounted /\ isFirstChunk /\ sources = <<1>>
    /\ lineQueue /= <<>>
    /\ Head(lineQueue) = <<DATA, Delta(<<"a">>)>>
    /\ TurnInTranscript

\* C3: an invocation of sendMessage that has finished, by whichever exit,
\* has left the loading flag false.
C3_LoadingCleared == sendPc = "returned" => ~isLoading

C3_Witness ==
    /\ sendPc = "returned" /\ sendExit = "http_error"
    /\ chatMounted /\ ~isLoading
    /\ TurnInTranscript

----------------------------------------------------------------------------
(* Properties of the route guard and of the documents hook *)

\* C5: a guarded page (chat, settings, info) is rendered only while
\* isAuthenticated holds, and a step that ends the session at a guarded
\* location renders the redirect to the login route.
C5_RouteGuard ==
    /\ [](page \in GuardedPages => isAuthenticated(token))
    /\ [][ (path \in GuardedPages /\ token' = NoToken)
           => (page' = "login" /\ path' = "login") ]_vars

\* logged out after the chat page was left with requests in flight
C5_Witness ==
    /\ token = NoToken /\ storedToken = NoToken
    /\ page = "login" /\ staleReqs > 0

\* C4: when a request of a data hook is answered 401, the stored auth_token
\* is removed, the token is null and isAuthenticated is false.
C4_UnauthorizedLogsOut ==
    lastStatus = 401
    => storedToken = NoToken /\ token = NoToken /\ ~isAuthenticated(token)

\* C9: a call of uploadDocument with a file of more than 50 * 1024 * 1024
\* bytes issues no request, leaves the loading flag and the list alone; a
\* file of exactly that size is posted.
C9_OversizedUpload ==
    [][ ( /\ page = "chat" /\ page' = "chat"
          /\ uploadPc \in {"idle", "rejected"}
          /\ uploadPc' \in {"rejected", "posting"}
          /\ (uploadPc' /= uploadPc \/ uploadSize' /= uploadSize) )
        => /\ uploadSize' > 50 * 1024 * 1024
              => /\ uploadPc' = "rejected"
                 /\ UNCHANGED <<documents, docsLoading, docGets, deletePc, staleReqs>>
           /\ uploadSize' = 50 * 1024 * 1024
              => /\ uploadPc' = "posting"
                 /\ docsLoading'
      ]_vars

C9_Witness ==
    /\ page = "chat" /\ uploadPc = "rejected"
    /\ uploadSize = 50 * 1024 * 1024 + 1
    /\ ~docsLoading /\ documents /= <<>>

\* C10: the hook has no polling interval armed while no document is pending
\* or processing, and exactly one otherwise; that one has a delay of 3000 ms
\* and re-fetches the list when 3000 ms have elapsed.
C10_PollingTimer ==
    /\ [] /\ ~hasPending(documents) => pollTimers = <<>>
          /\ hasPending(documents)
               => /\ Len(pollTimers) = 1
                  /\ pollTimers[1].delay = 3000
                  /\ pollTimers[1].elapsed <= 3000
    /\ [][ (page = "chat" /\ page' = "chat" /\ docGets' > docGets)
           => /\ Len(pollTimers) = 1
              /\ pollTimers[1].elapsed = 3000
              /\ docGets' = docGets + 1 ]_vars

\* the interval has fired and its re-fetch is in flight
C10_Witness ==
    /\ page = "chat" /\ hasPending(documents)
    /\ docGets = 1
    /\ pollTimers = <<[delay |-> 3000, elapsed |-> 0]>>

----------------------------------------------------------------------------
(* Properties of the settings hook *)

\* C6: the item stored under rag_settings never has the apiKey or the
\* sideApiKey field.
C6_NoSecretsStored ==
    storedSettings /= <<>>
    => storedSettings[1].apiKey = <<>> /\ storedSettings[1].sideApiKey = <<>>

\* C7, as stated: after updateSettings({temperature: v}, true) for any v, the
\* hook constructed again from storage has temperature v and an empty apiKey.
C7_RoundTripAnyValue ==
    [][ ( /\ lastCall /= <<>> /\ lastCall' /= <<>>
          /\ ~lastCall[1].reloaded /\ lastCall'[1].reloaded
          /\ lastCall[1].shouldPersist
          /\ \E v \in Temperatures :
                lastCall[1].newSettings = [Partial EXCEPT !.temperature = <<v>>] )
        => /\ settings'.temperature = lastCall[1].newSettings.temperature[1]
           /\ settings'.apiKey = ""
      ]_vars

\* C7, for finite numbers: after updateSettings({temperature: v}, true) with
\* v a finite number, the hook constructed again from storage has
\* temperature v and an empty apiKey, whatever apiKey the state held.
C7_RoundTripFinite ==
    [][ ( /\ lastCall /= <<>> /\ lastCall' /= <<>>
          /\ ~lastCall[1].reloaded /\ lastCall'[1].reloaded
          /\ lastCall[1].shouldPersist
          /\ \E v \in Temperatures :
                /\ IsFinite(v)
                /\ lastCall[1].newSettings = [Partial EXCEPT !.temperature = <<v>>] )
        => /\ settings'.temperature = lastCall[1].newSettings.temperature[1]
           /\ settings'.apiKey = ""
      ]_vars

C7_Witness ==
    /\ lastCall /= <<>>
    /\ lastCall[1] = [Call([Partial EXCEPT !.temperature = <<Num(70)>>], TRUE)
                        EXCEPT !.reloaded = TRUE]
    /\ settings.temperature = Num(70)
    /\ settings.apiKey = ""
    /\ settings.llmModel1 = "m2"

\* C8: with useMainAsSide true, updateSettings({llmModel1: m}) leaves
\* llmModel2 equal to m and updateSettings({apiKey: k}) leaves sideApiKey
\* equal to k.
C8_Mirroring ==
    ( /\ lastCall /= <<>>
      /\ ~lastCall[1].reloaded
      /\ lastCall[1].newSettings.useMainAsSide = <<>>
      /\ settings.useMainAsSide )
    => LET newSettings == lastCall[1].newSettings IN
       /\ newSettings.llmModel1 /= <<>> => settings.llmModel2 = newSettings.llmModel1[1]
       /\ newSettings.apiKey /= <<>> => settings.sideApiKey = newSettings.apiKey[1]

C8_Witness ==
    /\ lastCall = <<Call([Partial EXCEPT !.apiKey = <<"k1">>], FALSE)>>
    /\ settings.useMainAsSide
    /\ settings.sideApiKey = "k1"
    /\ settings.llmModel1 = "m2" /\ settings.llmModel2 = "m2"


----------------------------------------------------------------------------
(* Properties of the secrets bootstrap script *)

HasAssignment(key, file) ==
    \E i \in 1..Len(FileLines(file)) :
        LET line == FileLines(file)[i]
        IN  Len(line) = 3 /\ line[1] = key /\ line[2] = "="

\* the lines of the file before a step are the first lines of the file after it
LinesKept ==
    LET before == FileLines(envFile)
        after == FileLines(envFile')
    IN  /\ Len(after) >= Len(before)
        /\ \A i \in 1..Len(before) : after[i] = before[i]

\* C11: whatever the secrets file held (missing, empty, any of the two keys),
\* once the script has run at least once both JWT_SECRET_KEY and
\* ENCRYPTION_KEY have an assignment line; no step of a run changes a line
\* that was there before it; and a run after the first appends nothing.
C11_BootstrapIdempotent ==
    /\ [](bootRuns >= 1 /\ bootPc = "idle" =>
            /\ HasAssignment(KEY_NAMES[1], envFile)
            /\ HasAssignment(KEY_NAMES[2], envFile))
    /\ [][LinesKept]_vars
    /\ [][bootRuns >= 1 => envFile' = envFile]_vars

\* a second run is over on a file that held one of the keys after a
\* commented-out assignment of it, the other key having been generated
C11_Witness ==
    /\ bootRuns >= 2 /\ bootPc = "idle"
    /\ envFile = <<"#", "JWT_SECRET_KEY", "=", "o3", EOL, "JWT_SECRET_KEY", "=", "o1", EOL,
                   EOL, "ENCRYPTION_KEY", "=", "g1", EOL>>


----------------------------------------------------------------------------
(* Further properties of sendMessage *)

\* C12: in every transcript the chat hook reaches, whatever the order of
\* the stream's events, the error paths taken and the clearHistory calls in
\* between, a message with role user has no sources field.
C12_UserHasNoSources ==
    \A i \in 1..Len(messages) : messages[i].role = "user" => ~messages[i].hasSources

\* a turn is over whose question stands before an answer with sources
C12_Witness ==
    /\ sendPc = "returned" /\ sendExit = "stream_end"
    /\ Len(messages) >= 2
    /\ messages[Len(messages) - 1] \in { UserMessage(q) : q \in Questions }
    /\ Last(messages).role = "assistant"
    /\ Last(messages).hasSources /\ Last(messages).sources /= <<>>


----------------------------------------------------------------------------
(* Properties of the citation tooltip *)

\* C13: formatChunk is idempotent: for every text t, formatChunk applied to
\* formatChunk(t) gives formatChunk(t) again.
C13_FormatChunkIdempotent ==
    /\ [](formatChunk(formatChunk(chunkInput)) = formatChunk(chunkInput))
    /\ [][chunkPasses >= 1 => chunkText' = chunkText]_vars

\* an excerpt that loses a line break, its first letter and its tail to the
\* first call has gone through a second call
C13_Witness ==
    /\ chunkPasses = 2
    /\ chunkInput = <<"x", "A", LF, ".", "x">>
    /\ chunkText = <<"A", " ", ".">>


----------------------------------------------------------------------------
(* Properties of the message bubble *)

\* text starts with a bracketed number of k digits
BracketedNumber(text, k) ==
    /\ k >= 1 /\ Len(text) >= k + 2
    /\ text[1] = "[" /\ text[k + 2] = "]"
    /\ \A j \in 2..k + 1 : text[j] \in Digits

RECURSIVE Pow10(_)
Pow10(n) == IF n = 0 THEN 1 ELSE 10 * Pow10(n - 1)
\* the number that the k digits after the bracket write
NumberOf(text, k) ==
    LET val(j) == IF text[j] = "2" THEN 2 ELSE 0
        sum[j \in 1..k + 1] == IF j = 1 THEN 0 ELSE sum[j - 1] + val(j) * Pow10(k + 1 - j)
    IN  sum[k + 1]

Char(c) == [char |-> c, cite |-> -1]
Trigger(index) == [char |-> "", cite |-> index]

\* the text with each bracketed number that is the index of a source
\* replaced by a trigger for that index, and every other character kept
RECURSIVE Cited(_, _)
Cited(text, indexes) ==
    IF text = <<>> THEN <<>>
    ELSE IF \E k \in 1..Len(text) : BracketedNumber(text, k) /\ NumberOf(text, k) \in indexes
         THEN LET k == CHOOSE k \in 1..Len(text) : BracketedNumber(text, k)
              IN  <<Trigger(NumberOf(text, k))>> \o Cited(SubSeq(text, k + 3, Len(text)), indexes)
    ELSE <<Char(Head(text))>> \o Cited(Tail(text), indexes)

\* the children in order, a string child being its characters
RECURSIVE Flat(_)
Flat(children) ==
    IF children = <<>> THEN <<>>
    ELSE (IF Head(children).kind = "string"
          THEN [i \in 1..Len(Head(children).text) |-> Char(Head(children).text[i])]
          ELSE <<Trigger(Head(children).source[1].index)>>)
         \o Flat(Tail(children))

\* C14: for a message with a non-empty source list processText turns each
\* bracketed number [n] of a text child into a citation trigger exactly when
\* a source of the message has index n, the trigger showing such a source,
\* and keeps every other [n] and all other text as literal text in the
\* original order; without sources, or with an empty list, it returns the
\* text unchanged.
C14_CitationTriggers ==
    bubbleChildren /= <<>> =>
        LET result == bubbleChildren[1] IN
        IF bubbleSources = <<>> \/ bubbleSources[1] = <<>>
        THEN ~result.array /\ result.children = <<StringChild(textNode)>>
        ELSE LET srcs == bubbleSources[1] IN
             /\ Flat(result.children)
                  = Cited(textNode, { srcs[i].index : i \in 1..Len(srcs) })
             /\ \A i \in 1..Len(result.children) :
                   result.children[i].kind = "CitationTooltip" =>
                       \E j \in 1..Len(srcs) : result.children[i].source = <<srcs[j]>>

\* [2][0] rendered for a message whose only source has index 2
C14_Witness ==
    /\ textNode = <<"[", "2", "]", "[", "0", "]">>
    /\ bubbleSources = << <<Source(2, "doc.pdf")>> >>
    /\ bubbleChildren /= <<>>
    /\ bubbleChildren[1].children[2] = CitationTooltip(1, Source(2, "doc.pdf"))
    /\ bubbleChildren[1].children[4] = StringChild(<<"[", "0", "]">>)


----------------------------------------------------------------------------
(* Further properties of the settings hook *)

\* a finite number between two bounds, in hundredths
Within(x, low, high) == IsFinite(x) /\ low <= x.v /\ x.v <= high

\* C15: in every state the rerank threshold held and shown lies in
\* [-10, 10] and the temperature held and shown lies in [0, 2], also after
\* hydration from what is stored and after updateSettings called with
\* any number.
C15_SliderBounds ==
    /\ Within(settings.temperature, 0, 200)
    /\ Within(TemperatureShown(settings), 0, 200)
    /\ Within(settings.rerankThreshold, -1000, 1000)
    /\ Within(RerankThresholdShown(settings), -1000, 1000)


\* the transcript ends with an assistant message of the given content
EndsWithAssistant(msgs, content) ==
    /\ msgs /= <<>>
    /\ Last(msgs).role = "assistant"
    /\ Last(msgs).content = content

\* C16: when a "data: " event of type error is processed during a stream,
\* the assistant message of the turn, created if there is none yet, reads
\* "Error: <content>"; no later event of that stream is processed; and the
\* message still reads "Error: <content>" when the invocation has finished.
C16_ErrorEventEndsTurn ==
    /\ [][ ( /\ InSyncBlock /\ DataErrorEvent(Head(lineQueue))
             /\ lineQueue' = Tail(lineQueue)
             /\ TurnInTranscript /\ chatMounted' )
           => EndsWithAssistant(messages', ErrorPrefix \o ErrorContent(Head(lineQueue)[2])) ]_vars
    /\ [][ ( /\ errorEvent /= <<>>
             /\ InSyncBlock /\ Head(lineQueue) /= <<>> )
           => lineQueue' /= Tail(lineQueue) ]_vars
    /\ []( ( /\ sendPc = "returned" /\ errorEvent /= <<>>
             /\ chatMounted /\ TurnInTranscript )
           => EndsWithAssistant(messages, ErrorPrefix \o errorEvent[1]) )

\* C17: when the chat request is answered with a status that is neither a
\* success nor 401, sendMessage finishes with the transcript ending in an
\* assistant message that reads "Error: <message>", the message being the
\* content field of the error body or the generic network-error text.
C17_HttpErrorShown ==
    ( /\ sendPc = "returned" /\ sendExit = "http_error"
      /\ chatMounted /\ TurnInTranscript )
    => \E message \in {NotOkText, <<"m">>} :
           EndsWithAssistant(messages, ErrorPrefix \o message)

\* C18: when sendMessage ends by an exception (the request fails before a
\* response, or a read fails before or after the first fragment), the
\* transcript's last entry is an assistant message holding the generic
\* failure text with the description of the error.
C18_ExceptionShown ==
    ( /\ sendPc = "returned" /\ sendExit = "exception"
      /\ chatMounted /\ TurnInTranscript )
    => \E description \in {FetchFailed, ReadFailed} :
           EndsWithAssistant(messages, SorryPrefix \o description)


----------------------------------------------------------------------------
(* Further properties of the documents hook *)

\* the step in which the mounted hook handles the answer to its upload request
PostAnswered(status) ==
    uploadPc = "posting" /\ uploadPc' /= "posting" /\ lastStatus' = status

UploadRefreshOnSuccess == [][PostAnswered(200) => uploadPc' = "refetching"]_vars
UploadRefreshOnFailure == [][PostAnswered(500) => uploadPc' = "refetching"]_vars
UploadLogoutOnUnauthorized ==
    [][PostAnswered(401) => uploadPc' /= "refetching" /\ ~isAuthenticated(token')]_vars
UploadLoadingCleared == [](uploadPc \in {"idle", "rejected"} => ~docsLoading)

\* C19: once uploadDocument has sent a file of accepted size, a refresh of
\* the list is attempted when the upload succeeds and also when it fails
\* with an error other than unauthorized; on unauthorized there is no
\* refresh and logout is called; and the loading flag is false once the
\* operation has finished.
C19_UploadRefresh ==
    /\ UploadRefreshOnSuccess
    /\ UploadRefreshOnFailure
    /\ UploadLogoutOnUnauthorized
    /\ UploadLoadingCleared


\* the fields of the profile that a partial update touches
TouchesProfile(newSettings) ==
    \/ newSettings.llmModel1 /= <<>> \/ newSettings.llmModel2 /= <<>>
    \/ newSettings.apiKey /= <<>> \/ newSettings.sideApiKey /= <<>>
    \/ newSettings.useMainAsSide /= <<>>

\* C20: updateSettings(partial, true) with a token sends exactly one profile
\* update whenever partial touches llmModel1, llmModel2, apiKey, sideApiKey
\* or useMainAsSide, its payload holding the backend-named field of each
\* touched field (use_main_api_key_for_side for useMainAsSide) and no other
\* field; updateSettings(partial, false) sends none.
C20_ProfileUpdatePayload ==
    [][ (lastCall' /= <<>> /\ ~lastCall'[1].reloaded) =>
          LET newSettings == lastCall'[1].newSettings IN
          /\ (lastCall'[1].shouldPersist /\ TouchesProfile(newSettings)) =>
                sentPut' = << [llm_model |-> newSettings.llmModel1,
                               llm_side_model |-> newSettings.llmModel2,
                               api_key |-> newSettings.apiKey,
                               side_api_key |-> newSettings.sideApiKey,
                               use_main_api_key_for_side |-> newSettings.useMainAsSide] >>
          /\ ~lastCall'[1].shouldPersist => sentPut' = <<>> ]_vars


----------------------------------------------------------------------------
(* Properties of the use-main-as-side mode *)

\* C21: in every reachable state of the settings hook in which useMainAsSide
\* is true, llmModel2 equals llmModel1 and sideApiKey equals apiKey, after
\* any sequence of hydration, remote fetch completion and updateSettings.
C21_SideFollowsMain ==
    (SettingsMounted /\ settings.useMainAsSide) =>
        /\ settings.llmModel2 = settings.llmModel1
        /\ settings.sideApiKey = settings.apiKey


----------------------------------------------------------------------------
(* Properties of the hydration of the settings *)

\* C22: constructing the settings hook when rag_settings is absent or holds
\* text that is not valid JSON yields exactly the built-in defaults and
\* raises no error; when it holds a valid JSON object, each stored field
\* overrides the default and every field not stored keeps its default.
C22_HydrationDefaults ==
    [][ (initialState = <<>> /\ initialState' /= <<>>) =>
          LET r == initialState'[1]
          IN  /\ r.threw = <<>>
              /\ IF savedItem = <<>> \/ savedItem[1].json = <<>>
                 THEN r.value = <<DEFAULT_SETTINGS>>
                 ELSE \A f \in Fields :
                        r.value[1][f] = IF savedItem[1].json[1][f] /= <<>>
                                        THEN savedItem[1].json[1][f][1]
                                        ELSE DEFAULT_SETTINGS[f] ]_vars


----------------------------------------------------------------------------
(* Properties of clearHistory and fetchHistory *)

\* C23: once clearHistory has issued its delete request with a token present,
\* the transcript is empty whatever the outcome of the request (success,
\* another status, network failure), except for an unauthorized response,
\* where logout is called and clearHistory itself does not touch the
\* transcript (the guard then unmounts the page).
C23_ClearEmptiesTranscript ==
    [][ (clearReq = "pending" /\ clearReq' = "none") =>
          IF isAuthenticated(token) /\ ~isAuthenticated(token')
          THEN storedToken' = NoToken /\ ~chatMounted'
          ELSE messages' = <<>> ]_vars


----------------------------------------------------------------------------
(* Properties of the polling of the documents *)

BackendSettled == \A i \in 1..Len(backendDocs) : backendDocs[i] \in {"completed", "failed"}
\* from some point on no list request fails
ListRequestsSucceed == <>[][lastStatus' /= 500]_vars
Converged == documents = backendDocs /\ pollTimers = <<>>
PollingConverges == (<>[]BackendSettled /\ ListRequestsSucceed) => <>[]Converged
\* a failed list request leaves the polling interval armed
FailureKeepsPolling ==
    [][ (lastStatus' = 500 /\ hasPending(documents) /\ pollTimers /= <<>>) =>
          pollTimers' /= <<>> ]_vars

\* C24: if the backend eventually has every document completed or failed and
\* list requests eventually succeed, then with timers that fire the local
\* list eventually equals the backend's list and polling stops; and a failed
\* (non-401) list request during polling does not stop the polling while a
\* local document is pending or processing.
C24_PollingConverges == PollingConverges /\ FailureKeepsPolling


----------------------------------------------------------------------------
(* Properties of the reading of the response body *)

\* the transcript when the whole body arrives in one read
OneRead(body, msgs) ==
    LET st0 == RState(msgs, <<>>, <<>>, TRUE, FALSE)
        r == ReadChunk(st0, <<>>, body)
    IN  EndOfStream(r.st, r.buffer).messages

IsAssistant(m) == m.role = "assistant"
\* C26: one sendMessage invocation appends at most one assistant message to
\* the transcript, for every sequence of stream lines, bare JSON error lines
\* before, between or after the content fragments included.
C26_OneAssistantMessage == Len(SelectSeq(messages, IsAssistant)) <= 1


----------------------------------------------------------------------------
(* Properties of the interleavings of the chat hook's handlers *)

\* C27: under every interleaving of the events of an in-flight sendMessage
\* stream with the completion of clearHistory or fetchHistory, no transcript
\* update raises an exception: an update that inspects the last transcript
\* entry finds one.
C27_NoUpdaterThrows == ~renderError


HasQuestion(msgs) == \E i \in 1..Len(msgs) : \E q \in Questions : msgs[i] = UserMessage(q)
\* C28: once sendMessage has appended the user's message, the message stays
\* in the transcript of the mounted hook until clearHistory empties it; the
\* completion of a fetchHistory request started earlier does not remove it.
C28_QuestionStays ==
    [][ ( /\ HasQuestion(messages)
          /\ chatMounted'
          /\ ~(clearReq = "pending" /\ clearReq' = "none") )
        => HasQuestion(messages') ]_vars


----------------------------------------------------------------------------
(* Properties of the chat page's form *)

\* C29: when messages are sent only through the chat page form, at most one
\* sendMessage invocation is in flight at any time: after a submit no second
\* request is started before the first invocation has cleared the loading
\* flag.
C29_OneInvocationInFlight == sendsInFlight + staleSends <= 1


----------------------------------------------------------------------------
(* Properties of the login page's banner *)

FailureBanner(banner) == banner /= NoBanner /\ banner /= RegistrationSuccessful
\* C30: the timer started by a successful registration clears only the
\* registration-success banner: an error banner set by a failed submit is
\* still displayed after the timer fires, and only the next submit removes it.
C30_TimerKeepsErrorBanner ==
    [][ (FailureBanner(loginError) /\ page' = "login") =>
          \/ loginError' = loginError
          \/ ~loginLoading /\ loginLoading' ]_vars

====
